---- MODULE Spec2Model ----
(***************************************************************************)
(* Model of the multi-agent financial question pipeline of ezra-ai-be.     *)
(*                                                                         *)
(*   Spec   : the SSE orchestrator `create` (controller importing          *)
(*            services/agentRouting.js) for one request, with the client   *)
(*            disconnect signal, the heartbeat timer and the concurrently  *)
(*            running experts.                                             *)
(*   SpecQ  : the handler `question` of controllers/openai.mjs.            *)
(*   SpecR  : routeToExperts applied to drawn arguments.                   *)
(*   SpecS  : getFinancialSnapshot over the rows of a small data store.    *)
(*                                                                         *)
(* One action is one run-to-completion turn of the JavaScript event loop:  *)
(* the code between two suspension points that wait for I/O.  A resolved   *)
(* promise is continued in microtasks, so no I/O callback (client close,   *)
(* timer) can run between an `await` of a synchronous value and the code   *)
(* after it.                                                               *)
(***************************************************************************)
EXTENDS Integers, Sequences, FiniteSets, TLC

VARIABLES
    pc,           \* position of `create`: idle, snapshot, classify, experts,
                  \* synth_create, streaming, done, aborted, error
    body,         \* req.body of the request
    headers,      \* response headers set with res.setHeader
    flushed,      \* res.flushHeaders was called
    aborted,      \* the closure variable `aborted`
    heartbeat,    \* the setInterval handle: none, active, cleared
    clearCount,   \* number of clearInterval(heartbeat) calls
    endCount,     \* number of res.end() calls
    log,          \* the `data:` events written with res.write, in order
    keepAlives,   \* number of `: keep-alive` comment lines written
    calls,        \* external / stage calls issued, in order
    snapshot,     \* result of getFinancialSnapshot
    classification, \* result of classifyQuestion
    experts,      \* result of routeToExperts
    estate,       \* per selected expert: inflight, ok, unparseable, apierror
    stream,       \* the events the synthesizer stream delivers, <<>> before it is created
    streamed,     \* number of stream events consumed by streamFinalAnalysis
    closedAt,     \* history: Len(log) when the client-closed signal first fired, -1 before
    closedPc,     \* history: pc when the client-closed signal first fired
    failedStage,  \* history: the stage whose failure reached the catch block, "" if none
    \* ---- the handler `question` of openai.mjs ----
    qstate,       \* idle, running, rejected, done, aborted, error
    qpc,          \* index in QProgram of the step to resume at
    qwait,        \* what the handler is suspended on: none, io, drain, stream
    qbody,        \* req.body
    qheaders,     \* response headers set
    qflushed,     \* res.headersSent
    qstatus,      \* HTTP status set with res.status, 0 if none
    qjson,        \* a JSON body was sent with res.json
    qlog,         \* everything written with res.write, in order
    qdisc,        \* the closure variable `clientDisconnected`
    qend,         \* number of times the response was ended
    qcalls,       \* external calls issued, in order
    qfull,        \* `fullText` of streamResponseTextToSSE
    qstreamed,    \* number of stream events consumed
    qclosedAt,    \* history: Len(qlog) when the client-closed signal fired, -1 before
    qbuf,         \* the response's outbound buffer: "full" from a res.write that
                  \* returned false until "drain" fires, else "ok"
    \* ---- routeToExperts applied to drawn inputs ----
    rstate,       \* off, ready, routed, threw
    rclass,       \* the classification argument
    rsnap,        \* the snapshot argument
    rout,         \* the returned selection
    \* ---- getFinancialSnapshot over a small data store ----
    sstate,       \* off, db, fetched
    sdb,          \* the rows the five queries return
    ssnap,        \* the snapshot returned by getFinancialSnapshot
    \* ---- selectAgents of samepl.js applied to drawn inputs ----
    astate,       \* off, parsed, validated, threw, selected
    arouter,      \* the parsed router output
    ahints,       \* the topic hints
    acands,       \* the list `agents` when selectAgents reaches its return
    aout,         \* the list selectAgents returns
    \* ---- runExpert of samepl.js applied to drawn completions ----
    xstate,       \* off, called, returned, threw
    xagent,       \* the requested agent name
    xtext,        \* the text of the completion
    xresult,      \* what runExpert returned, or the error it raised
    \* ---- streamEditorToSSE of samepl.js ----
    edpc,         \* off, creating, streaming, returned
    edlog,        \* the SSE events written with sseSend, in order
    edend,        \* number of res.end() calls
    edabort,      \* controller.signal.aborted
    edtokens,     \* number of chunks taken from the editor stream
    edclosedAt,   \* history: Len(edlog) when "close" fired, -1 before
    edclosedPc,   \* history: edpc when "close" fired
    \* ---- several requests of `create` in flight, one entry per request ----
    ipc,          \* position: idle, snapshot, classify, experts, synth, done,
                  \* aborted, error
    iaborted,     \* the closure variable `aborted` of the request
    iheartbeat,   \* the request's setInterval handle: none, active, cleared
    iwriters,     \* history: the requests whose code wrote to this request's response
    iendedBy,     \* history: the requests whose code ended this request's response
    iclearedBy,   \* history: the requests whose code cleared this request's heartbeat
    iclosed,      \* history: the client of this request has disconnected
    ikeepAlives   \* keep-alive comments written by the request's timer

cvars == <<pc, body, headers, flushed, aborted, heartbeat, clearCount, endCount,
           log, keepAlives, calls, snapshot, classification, experts, estate,
           stream, streamed, closedAt, closedPc, failedStage>>

qvars == <<qstate, qpc, qwait, qbody, qheaders, qflushed, qstatus, qjson, qlog,
           qdisc, qend, qcalls, qfull, qstreamed, qclosedAt, qbuf>>

rvars == <<rstate, rclass, rsnap, rout>>

\* The variables of the specifications of pure functions.
svars == <<sstate, sdb, ssnap>>

avars == <<astate, arouter, ahints, acands, aout>>

xvars == <<xstate, xagent, xtext, xresult>>

edvars == <<edpc, edlog, edend, edabort, edtokens, edclosedAt, edclosedPc>>

ivars == <<ipc, iaborted, iheartbeat, iwriters, iendedBy, iclearedBy, iclosed,
           ikeepAlives>>

pvars == <<rvars, svars, avars, xvars, edvars, ivars>>

vars == <<cvars, qvars, pvars>>

----------------------------------------------------------------------------
(* Bounds *)

MaxKeepAlives == 1   \* keep-alive lines written per request
MaxStream == 2       \* events delivered by the synthesizer stream
MaxLen == 2          \* characters of a request field
MaxRows == 3         \* rows of the account in the data store, all tables together
MaxText == 3         \* tokens of an expert's completion text
MaxChunks == 3       \* chunks delivered by the editor stream
MaxRequests == 2     \* requests of `create` in flight at once

----------------------------------------------------------------------------
(* Values *)

\* A JavaScript string is a sequence of characters; `undefined` is a mark
\* that is not a string.
Undefined == <<"undefined">>
Blank == " "
Strings == {<<>>, <<"q">>}

NoClassification == [question_type |-> "", emotional_state |-> ""]
NoSnapshot == [totals |-> [totalLiabilities |-> -1]]

\* A property that the parsed classifier output does not carry.
MissingField == "<undefined>"

\* INTENT_ROUTER_SCHEMA, the enumerations named in the classifier's request.
INTENT_ROUTER_SCHEMA ==
    [question_type |-> {"lookup", "calculation", "analysis", "future_planning", "tax"},
     emotional_state |-> {"anxious", "motivated", "defensive", "curious"}]

\* What JSON.parse of the classifier's completion can yield.  The request's
\* schema is not strict and lists "type" and "reasoning" as required, so the
\* enumerated fields may be absent; the system prompt also names
\* "recommendation" as a question type.
QuestionTypeOutputs == INTENT_ROUTER_SCHEMA.question_type \cup {"recommendation", MissingField}
EmotionalStateOutputs == INTENT_ROUTER_SCHEMA.emotional_state \cup {"overwhelmed"}
ClassifierOutputs ==
    [question_type : QuestionTypeOutputs, emotional_state : EmotionalStateOutputs]

\* Snapshots returned by the snapshot provider, as far as the pipeline reads them.
Snapshots == {[totals |-> [totalLiabilities |-> l]] : l \in {0, 5000}}

\* Request bodies of `create`: the question is a string or absent.  `create`
\* never branches on either field; accountId only reaches the status text and
\* the snapshot provider.
Bodies == [question : Strings \cup {Undefined}, accountId : {<<"a">>}]

\* Variant: the registry has no entry for goal_architect.
expertPanelNoGoal ==
    [financial_analyst |-> [output_schema |-> TRUE],
     behavioral_therapist |-> [output_schema |-> TRUE],
     behavioral_economist |-> [output_schema |-> TRUE],
     debt_strategist |-> [output_schema |-> TRUE],
     tax_optimizer |-> [output_schema |-> TRUE],
     persuasion_coach |-> [output_schema |-> FALSE]]

\* expertPanel: expert identifier -> whether it declares an output_schema.
expertPanel ==
    [financial_analyst |-> [output_schema |-> TRUE],
     behavioral_therapist |-> [output_schema |-> TRUE],
     behavioral_economist |-> [output_schema |-> TRUE],
     debt_strategist |-> [output_schema |-> TRUE],
     tax_optimizer |-> [output_schema |-> TRUE],
     goal_architect |-> [output_schema |-> TRUE],
     persuasion_coach |-> [output_schema |-> FALSE]]

\* Outcomes of one structured-output request of runExpertAnalysis.
ExpertOutcomes == {"ok", "unparseable", "apierror"}

----------------------------------------------------------------------------
(* Pure helpers of the pipeline *)

\* Variant: the test also matches the planning type.
includesTaxOrPlanning(s) == s \in {"tax", "estate_tax", "future_planning"}

\* String.prototype.includes("tax") over the question types drawn.
includesTax(s) == s \in {"tax", "estate_tax"}

\* routeToExperts throws a TypeError when question_type is not a string
\* (`classification.question_type.includes`).
routeThrows(c) == c.question_type = MissingField

\* Variant: the expert is put at the front of the list.
condUnshift(seq, cond, e) == IF cond THEN <<e>> \o seq ELSE seq

condPush(seq, cond, e) == IF cond THEN Append(seq, e) ELSE seq

\* Variant: the liabilities rule is evaluated before the question-type rule.
routeToExpertsDebtFirst(c, snap) ==
    LET e0 == <<"financial_analyst">>
        e1 == condPush(e0, snap.totals.totalLiabilities > 0, "debt_strategist")
        e2 == condPush(e1, c.question_type = "recommendation", "behavioral_economist")
        e3 == condPush(e2, c.emotional_state = "anxious" \/ c.emotional_state = "defensive",
                       "behavioral_therapist")
        e4 == condPush(e3, includesTax(c.question_type), "tax_optimizer")
        e5 == condPush(e4, c.question_type = "future_planning", "goal_architect")
    IN  e5

routeToExperts(c, snap) ==
    LET e0 == <<"financial_analyst">>
        e1 == condPush(e0, c.question_type = "recommendation", "behavioral_economist")
        e2 == condPush(e1, c.emotional_state = "anxious" \/ c.emotional_state = "defensive",
                       "behavioral_therapist")
        e3 == condPush(e2, snap.totals.totalLiabilities > 0, "debt_strategist")
        e4 == condPush(e3, includesTax(c.question_type), "tax_optimizer")
        e5 == condPush(e4, c.question_type = "future_planning", "goal_architect")
    IN  e5

\* The SSE events of `create`.
statusEvent(msg) == [type |-> "status", msg |-> msg]
deltaEvent == [type |-> "delta", msg |-> "d"]
doneEvent == [type |-> "done", msg |-> "true"]
errorEvent(msg) == [type |-> "error", msg |-> msg]

sendStatus(ch, msg) == Append(ch, statusEvent(msg))

startedMsg(e) == e \o " started..."
finishedMsg(e) == e \o " finished."

\* runExpertsStatusOnly, synchronous part: every expert's "started" status is
\* written and its request issued, in selection order.
RECURSIVE fanOutLog(_, _)
fanOutLog(ch, es) ==
    IF es = <<>> THEN ch
    ELSE fanOutLog(sendStatus(ch, startedMsg(Head(es))), Tail(es))

\* Variant: a request is issued for an expert without output_schema too.
expertStartNoSkip(e) ==
    IF e \notin DOMAIN expertPanel THEN "unknown" ELSE "inflight"

\* runExpertAnalysis before its request: unknown expert -> throws,
\* no output_schema -> returns null, otherwise the request is in flight.
expertStart(e) ==
    IF e \notin DOMAIN expertPanel THEN "unknown"
    ELSE IF ~expertPanel[e].output_schema THEN "null"
    ELSE "inflight"

----------------------------------------------------------------------------
(* getFinancialSnapshot *)

\* A value of a numeric column: NULL or a number.
Null == [isNull |-> TRUE, num |-> 0]
dbNum(n) == [isNull |-> FALSE, num |-> n]

\* Amounts are multiples of 12, so that the pay-frequency conversions
\* (amount * 26) / 12 and (amount * 52) / 12 are whole numbers.
DbAmounts == {-12, 12, 24}
DbValues == {Null} \cup {dbNum(n) : n \in DbAmounts}
DbFrequencies == {"Monthly", "Every 2 Weeks", ""}

Tables == {"fixedCosts", "incomes", "assets", "liabilities", "spending"}

\* `v ?? 0`
toNum(v) == IF v.isNull THEN 0 ELSE v.num

\* `Number(x || 0)` for a number x
numberOrZero(x) == IF x = 0 THEN 0 ELSE x

normalizeMonthlyIncome(amount, frequency) ==
    IF amount = 0 \/ frequency = "" THEN 0
    ELSE CASE frequency = "Every 2 Weeks" -> (amount * 26) \div 12
           [] frequency = "15th And 30th" -> amount * 2
           [] frequency = "Weekly" -> (amount * 52) \div 12
           [] frequency = "Monthly" -> amount
           [] OTHER -> 0

\* rows.map(({..., amount}) => ({..., amount: toNum(amount)})) and the like;
\* the name and category columns are carried along unchanged and left out.
mapAmounts(rows) == [i \in 1..Len(rows) |-> [amount |-> toNum(rows[i].value)]]
mapValues(rows) == [i \in 1..Len(rows) |-> [value |-> toNum(rows[i].value)]]
mapIncomes(rows) ==
    [i \in 1..Len(rows) |->
        [monthlyAmount |-> normalizeMonthlyIncome(toNum(rows[i].value), rows[i].frequency)]]

\* list.reduce((sum, x) => sum + Number(x || 0), 0) over the numbers xs
RECURSIVE reduceSum(_)
reduceSum(xs) ==
    IF xs = <<>> THEN 0
    ELSE reduceSum(SubSeq(xs, 1, Len(xs) - 1)) + numberOrZero(xs[Len(xs)])

\* Variant: the cashflow leaves the card spending out.
snapshotTotalsNoSpending(fixedCosts, incomes, assets, liabilities, spending) ==
    LET totalFixedCosts == reduceSum([i \in DOMAIN fixedCosts |-> fixedCosts[i].amount])
        totalMonthlyIncome == reduceSum([i \in DOMAIN incomes |-> incomes[i].monthlyAmount])
        totalAssets == reduceSum([i \in DOMAIN assets |-> assets[i].value])
        totalLiabilities == reduceSum([i \in DOMAIN liabilities |-> liabilities[i].value])
        totalSpending == reduceSum([i \in DOMAIN spending |-> spending[i].value])
    IN  [totalFixedCosts |-> totalFixedCosts,
         totalMonthlyIncome |-> totalMonthlyIncome,
         totalAssets |-> totalAssets,
         totalLiabilities |-> totalLiabilities,
         totalSpending |-> totalSpending,
         netWorthApprox |-> totalAssets - totalLiabilities,
         monthlyCashflowApprox |-> totalMonthlyIncome - totalFixedCosts]

\* The `totals` record of the snapshot.
snapshotTotals(fixedCosts, incomes, assets, liabilities, spending) ==
    LET totalFixedCosts == reduceSum([i \in DOMAIN fixedCosts |-> fixedCosts[i].amount])
        totalMonthlyIncome == reduceSum([i \in DOMAIN incomes |-> incomes[i].monthlyAmount])
        totalAssets == reduceSum([i \in DOMAIN assets |-> assets[i].value])
        totalLiabilities == reduceSum([i \in DOMAIN liabilities |-> liabilities[i].value])
        totalSpending == reduceSum([i \in DOMAIN spending |-> spending[i].value])
    IN  [totalFixedCosts |-> totalFixedCosts,
         totalMonthlyIncome |-> totalMonthlyIncome,
         totalAssets |-> totalAssets,
         totalLiabilities |-> totalLiabilities,
         totalSpending |-> totalSpending,
         netWorthApprox |-> totalAssets - totalLiabilities,
         monthlyCashflowApprox |-> totalMonthlyIncome - totalFixedCosts - totalSpending]

\* getFinancialSnapshot after its five queries returned the rows of db.
getFinancialSnapshot(db) ==
    LET fixedCosts == mapAmounts(db.fixedCosts)
        incomes == mapIncomes(db.incomes)
        assets == mapValues(db.assets)
        liabilities == mapValues(db.liabilities)
        spending == mapValues(db.spending)
    IN  [fixedCosts |-> fixedCosts,
         incomes |-> incomes,
         assets |-> assets,
         liabilities |-> liabilities,
         spending |-> spending,
         totals |-> snapshotTotals(fixedCosts, incomes, assets, liabilities, spending)]

EmptyDb == [t \in Tables |-> <<>>]

\* ORDER BY ... DESC of the queries: NULL sorts first, then larger numbers.
sortsBefore(a, b) == a.isNull \/ (~b.isNull /\ a.num >= b.num)

RECURSIVE insertDesc(_, _)
insertDesc(rows, r) ==
    IF rows = <<>> THEN <<r>>
    ELSE IF sortsBefore(r.value, Head(rows).value) THEN <<r>> \o rows
    ELSE <<Head(rows)>> \o insertDesc(Tail(rows), r)

dbRows(db) == Len(db.fixedCosts) + Len(db.incomes) + Len(db.assets)
                + Len(db.liabilities) + Len(db.spending)

----------------------------------------------------------------------------
(* Router validation and agent selection of controllers/samepl.js *)

\* safeJsonParse returned null.
NullJson == [json |-> "null"]

\* JSON values of the field follow_up_needed, by their type.
JsonTrue == [t |-> "boolean", v |-> "true"]
JsonFalse == [t |-> "boolean", v |-> "false"]
JsonAbsent == [t |-> "undefined", v |-> ""]

\* What safeJsonParse can hand to assertRouterShape: null, or an object whose
\* fields hold values inside or outside the accepted sets.
RouterQuestionTypes ==
    {"lookup", "calculation", "diagnosis", "recommendation", "goal_planning", "crisis"}
RouterEmotionalStates == {"anxious", "motivated", "defensive", "curious", "overwhelmed"}
RouterUrgency == {"immediate", "standard", "long_term"}
ParsedRouters ==
    {NullJson} \cup
    [question_type : RouterQuestionTypes \cup {"tax"},
     emotional_state : {"anxious", "overwhelmed", "bored"},
     urgency : {"immediate", "someday"},
     follow_up_needed : {JsonTrue, JsonFalse, JsonAbsent}]

\* detectTopicHints: one flag per topic.
TopicHints ==
    [taxes : BOOLEAN, investing : BOOLEAN, debt : BOOLEAN, budgeting : BOOLEAN,
     emergency : BOOLEAN]
NoHints ==
    [taxes |-> FALSE, investing |-> FALSE, debt |-> FALSE, budgeting |-> FALSE,
     emergency |-> FALSE]

\* assertRouterShape throws on obj.
assertRouterShapeThrows(obj) ==
    IF obj = NullJson THEN TRUE
    ELSE \/ obj.question_type \notin RouterQuestionTypes
         \/ obj.emotional_state \notin RouterEmotionalStates
         \/ obj.urgency \notin RouterUrgency
         \/ obj.follow_up_needed.t # "boolean"

\* [...new Set(list)]: the first occurrence of every element, in order.
RECURSIVE uniqueInOrder(_)
uniqueInOrder(list) ==
    IF list = <<>> THEN <<>>
    ELSE LET init == uniqueInOrder(SubSeq(list, 1, Len(list) - 1))
             last == list[Len(list)]
         IN  IF \E i \in DOMAIN init : init[i] = last THEN init ELSE Append(init, last)

\* list.slice(0, n)
sliceFromStart(list, n) == SubSeq(list, 1, IF Len(list) < n THEN Len(list) ELSE n)

\* The list `agents` of selectAgents after the switch and the three hint rules.
candidateAgents(router, hints) ==
    LET a0 == CASE router.question_type = "lookup" -> <<"facts_checker">>
                [] router.question_type = "calculation" -> <<"quant">>
                [] router.question_type = "diagnosis" -> <<"financial_debugger", "risk_officer">>
                [] router.question_type = "recommendation" -> <<"financial_planner", "risk_officer">>
                [] router.question_type = "goal_planning" -> <<"financial_planner", "behavior_coach">>
                [] router.question_type = "crisis" -> <<"crisis_triage", "risk_officer">>
                [] OTHER -> <<>>
        a1 == condPush(a0, hints.taxes, "tax_specialist")
        a2 == condPush(a1, hints.debt /\ router.question_type # "lookup", "debt_specialist")
        a3 == condPush(a2, hints.investing, "investment_pm")
    IN  a3

\* Variant: the list is returned without the cap.
selectAgentsNoCap(router, hints) == uniqueInOrder(candidateAgents(router, hints))

selectAgents(router, hints) ==
    sliceFromStart(uniqueInOrder(candidateAgents(router, hints)), 4)

----------------------------------------------------------------------------
(* safeJsonParse and runExpert of controllers/samepl.js *)

\* A completion text is a sequence of tokens: the braces, the member
\* "agent":"m" (a), the member "agent":"" (e), the numbers 4 and 0, and a
\* stretch of prose (x).
TextTokens == {"{", "}", "a", "e", "4", "0", "x"}
Texts == UNION {[1..n -> TextTokens] : n \in 0..MaxText}

JsonNumber(n) == [json |-> "number", num |-> n, agent |-> ""]
JsonObject(agent) == [json |-> "object", num |-> 0, agent |-> agent]

\* JSON.parse: the value, or "throws" for a text that is no JSON value.
jsonParse(text) ==
    CASE text = <<"4">> -> [throws |-> FALSE, value |-> JsonNumber(4)]
      [] text = <<"0">> -> [throws |-> FALSE, value |-> JsonNumber(0)]
      [] text = <<"{", "}">> -> [throws |-> FALSE, value |-> JsonObject("")]
      [] text = <<"{", "a", "}">> -> [throws |-> FALSE, value |-> JsonObject("m")]
      [] text = <<"{", "e", "}">> -> [throws |-> FALSE, value |-> JsonObject("")]
      [] OTHER -> [throws |-> TRUE, value |-> NullJson]

\* text.indexOf(t) and text.lastIndexOf(t), 0 when t is not there.
firstIndexOf(text, t) ==
    IF \E i \in DOMAIN text : text[i] = t
      THEN CHOOSE i \in DOMAIN text : text[i] = t /\ \A j \in 1..(i - 1) : text[j] # t
      ELSE 0
lastIndexOf(text, t) ==
    IF \E i \in DOMAIN text : text[i] = t
      THEN CHOOSE i \in DOMAIN text : text[i] = t /\ \A j \in (i + 1)..Len(text) : text[j] # t
      ELSE 0

safeJsonParse(text) ==
    IF ~jsonParse(text).throws THEN jsonParse(text).value
    ELSE LET start == firstIndexOf(text, "{")
             end == lastIndexOf(text, "}")
         IN  IF start # 0 /\ end # 0 /\ end > start
               THEN LET inner == jsonParse(SubSeq(text, start, end))
                    IN  IF inner.throws THEN NullJson ELSE inner.value
               ELSE NullJson

\* `!parsed` for a parsed JSON value
jsonFalsy(v) == v = NullJson \/ (v.json = "number" /\ v.num = 0)

\* The low-confidence artifact of runExpert.
fallbackArtifact(agentName, text) ==
    [raised |-> "", agent |-> agentName, claims |-> <<>>, assumptions |-> <<>>,
     numbers |-> <<>>,
     risks |-> <<"Expert returned invalid JSON; ignore unless corroborated.">>,
     questions_to_ask_user |-> <<>>, confidence |-> <<"0.0">>, raw |-> text]

\* The parsed object with its agent member set; the members the text does
\* not carry stay undefined.
parsedArtifact(agent) ==
    [raised |-> "", agent |-> agent, claims |-> Undefined, assumptions |-> Undefined,
     numbers |-> Undefined, risks |-> Undefined, questions_to_ask_user |-> Undefined,
     confidence |-> Undefined, raw |-> Undefined]

raisedError(name) ==
    [raised |-> name, agent |-> "", claims |-> Undefined, assumptions |-> Undefined,
     numbers |-> Undefined, risks |-> Undefined, questions_to_ask_user |-> Undefined,
     confidence |-> Undefined, raw |-> Undefined]

\* runExpert after its completion returned text.  The module is an ES module,
\* so it runs in strict mode, where `parsed.agent = ...` on a number throws a
\* TypeError.
runExpert(agentName, text) ==
    LET parsed == safeJsonParse(text) IN
    IF jsonFalsy(parsed) THEN fallbackArtifact(agentName, text)
    ELSE IF parsed.json # "object" THEN raisedError("TypeError")
    ELSE parsedArtifact(IF parsed.agent # "" THEN parsed.agent ELSE agentName)

----------------------------------------------------------------------------
(* The orchestrator `create` *)

SSEHeaders == {"Content-Type", "Cache-Control", "Connection", "X-Accel-Buffering"}

Terminal == {"done", "aborted", "error"}

\* Variant: the stage-boundary guard never reports the disconnect.
bailNever == FALSE

\* bailIfAborted(): the value it returns; its res.end() is in BailExit.
bailIfAborted == aborted

\* res.end()
resEnd(n) == n + 1

\* Variant: the early exit returns without ending the response.
BailExitNoEnd(ch) ==
    /\ log' = ch
    /\ endCount' = endCount
    /\ heartbeat' = "cleared"
    /\ clearCount' = clearCount + 1
    /\ pc' = "aborted"
    /\ UNCHANGED <<calls, failedStage>>

\* `if (bailIfAborted()) return;` taken: res.end() in bailIfAborted, return,
\* then the finally block clears the heartbeat.
BailExit(ch) ==
    /\ log' = ch
    /\ endCount' = resEnd(endCount)
    /\ heartbeat' = "cleared"
    /\ clearCount' = clearCount + 1
    /\ pc' = "aborted"
    /\ UNCHANGED <<calls, failedStage>>

\* Variant: the catch block ends the response without an error event.
CatchExitSilent(ch, msg) ==
    /\ log' = ch
    /\ endCount' = resEnd(endCount)
    /\ heartbeat' = "cleared"
    /\ clearCount' = clearCount + 1
    /\ pc' = "error"
    /\ failedStage' = pc

\* Variant: no finally block, the catch block leaves the heartbeat timer set.
CatchExitNoClear(ch, msg) ==
    /\ log' = Append(ch, errorEvent(msg))
    /\ endCount' = resEnd(endCount)
    /\ heartbeat' = heartbeat
    /\ clearCount' = clearCount
    /\ pc' = "error"
    /\ failedStage' = pc

\* The catch block followed by the finally block: one error event, res.end(),
\* clearInterval(heartbeat).  It does not read `aborted`.
CatchExit(ch, msg) ==
    /\ log' = Append(ch, errorEvent(msg))
    /\ endCount' = resEnd(endCount)
    /\ heartbeat' = "cleared"
    /\ clearCount' = clearCount + 1
    /\ pc' = "error"
    /\ failedStage' = pc

\* Variant: the classifier is called without awaiting the snapshot.
CreateEager(b) ==
    /\ UNCHANGED <<qvars, pvars>>
    /\ UNCHANGED stream
    /\ pc = "idle"
    /\ body' = b
    /\ headers' = SSEHeaders
    /\ flushed' = TRUE
    /\ aborted' = FALSE
    /\ heartbeat' = "active"
    /\ log' = sendStatus(log, "Fetching financial data for account")
    /\ calls' = calls \o <<"getFinancialSnapshot", "classifyQuestion">>
    /\ pc' = "snapshot"
    /\ UNCHANGED <<clearCount, endCount, keepAlives, snapshot, classification,
                   experts, estate, streamed, closedAt, closedPc, failedStage>>

\* Entry of `create` up to the first await: no validation of the body; SSE
\* headers, listeners, heartbeat timer, first status, snapshot fetch.
Create(b) ==
    /\ UNCHANGED <<qvars, pvars>>
    /\ UNCHANGED stream
    /\ pc = "idle"
    /\ body' = b
    /\ headers' = SSEHeaders
    /\ flushed' = TRUE
    /\ aborted' = FALSE
    /\ heartbeat' = "active"
    /\ log' = sendStatus(log, "Fetching financial data for account")
    /\ calls' = Append(calls, "getFinancialSnapshot")
    /\ pc' = "snapshot"
    /\ UNCHANGED <<clearCount, endCount, keepAlives, snapshot, classification,
                   experts, estate, streamed, closedAt, closedPc, failedStage>>

\* getFinancialSnapshot resolved.
SnapshotResolved(s) ==
    /\ UNCHANGED <<qvars, pvars>>
    /\ UNCHANGED stream
    /\ pc = "snapshot"
    /\ snapshot' = s
    /\ IF bailIfAborted
         THEN BailExit(log)
         ELSE /\ log' = sendStatus(log, "Routing your question to the right expert...")
              /\ calls' = Append(calls, "classifyQuestion")
              /\ pc' = "classify"
              /\ UNCHANGED <<endCount, heartbeat, clearCount, failedStage>>
    /\ UNCHANGED <<body, headers, flushed, aborted, keepAlives, classification,
                   experts, estate, streamed, closedAt, closedPc>>

\* getFinancialSnapshot rejected.
SnapshotRejected ==
    /\ UNCHANGED <<qvars, pvars>>
    /\ UNCHANGED stream
    /\ pc = "snapshot"
    /\ CatchExit(log, "snapshot failed")
    /\ UNCHANGED <<body, headers, flushed, aborted, keepAlives, calls, snapshot,
                   classification, experts, estate, streamed, closedAt, closedPc>>

\* Variant: the experts run one after the other, only the first is started.
StartExpertsSequential(es) ==
    /\ experts' = es
    /\ log' = sendStatus(log, startedMsg(es[1]))
    /\ calls' = calls \o <<"routeToExperts", es[1]>>
    /\ estate' = [i \in 1..Len(es) |-> IF i = 1 THEN expertStart(es[i]) ELSE "waiting"]
    /\ pc' = "experts"
    /\ UNCHANGED <<endCount, heartbeat, clearCount, failedStage>>

\* The experts stage is entered: runExpertsStatusOnly maps over the selection.
StartExperts(es) ==
    /\ experts' = es
    /\ log' = fanOutLog(log, es)
    /\ calls' = calls \o <<"routeToExperts">> \o es
    /\ estate' = [i \in 1..Len(es) |-> expertStart(es[i])]
    /\ pc' = "experts"
    /\ UNCHANGED <<endCount, heartbeat, clearCount, failedStage>>

\* classifyQuestion resolved with the parsed completion c; routeToExperts is
\* synchronous, so routing, both stage-boundary checks and the fan-out of the
\* experts run in the same turn.
ClassifyResolved(c) ==
    /\ UNCHANGED <<qvars, pvars>>
    /\ UNCHANGED stream
    /\ pc = "classify"
    /\ classification' = c
    /\ IF bailIfAborted
         THEN BailExit(log) /\ UNCHANGED <<experts, estate>>
         ELSE IF routeThrows(c)
           THEN /\ CatchExit(log, "TypeError")
                /\ calls' = Append(calls, "routeToExperts")
                /\ UNCHANGED <<experts, estate>>
           ELSE StartExperts(routeToExperts(c, snapshot))
    /\ UNCHANGED <<body, headers, flushed, aborted, keepAlives, snapshot,
                   streamed, closedAt, closedPc>>

\* classifyQuestion rejected: the request failed or JSON.parse threw.
ClassifyRejected ==
    /\ UNCHANGED <<qvars, pvars>>
    /\ UNCHANGED stream
    /\ pc = "classify"
    /\ CatchExit(log, "classification failed")
    /\ UNCHANGED <<body, headers, flushed, aborted, keepAlives, calls, snapshot,
                   classification, experts, estate, streamed, closedAt, closedPc>>

\* Variant: the join resolves with the first expert that returns.
anySettledOk(st) == \E j \in 1..Len(st) : st[j] = "ok"

\* Promise.all over the expert promises resolves when every one has resolved.
allSettledOk(st) == \A j \in 1..Len(st) : st[j] = "ok"

\* Variant: the join of the experts never resolves.
ExpertResolvedNoJoin(i) ==
    /\ UNCHANGED <<qvars, pvars>>
    /\ UNCHANGED stream
    /\ i \in 1..Len(estate)
    /\ estate[i] = "inflight"
    /\ estate' = [estate EXCEPT ![i] = "ok"]
    /\ log' = sendStatus(log, finishedMsg(experts[i]))
    /\ UNCHANGED <<pc, calls, endCount, heartbeat, clearCount, failedStage>>
    /\ UNCHANGED <<body, headers, flushed, aborted, keepAlives, snapshot,
                   classification, experts, streamed, closedAt, closedPc>>

\* The request of expert i returned parseable JSON: its "finished" status is
\* written by the map callback, whatever became of the request meanwhile; when
\* it was the last one, Promise.all resolves and `create` goes on.
ExpertResolved(i) ==
    /\ UNCHANGED <<qvars, pvars>>
    /\ UNCHANGED stream
    /\ i \in 1..Len(estate)
    /\ estate[i] = "inflight"
    /\ estate' = [estate EXCEPT ![i] = "ok"]
    /\ IF pc = "experts" /\ allSettledOk(estate')
         THEN IF bailIfAborted
                THEN BailExit(sendStatus(log, finishedMsg(experts[i])))
                ELSE /\ log' = sendStatus(log, finishedMsg(experts[i]))
                     /\ calls' = Append(calls, "streamFinalAnalysis")
                     /\ pc' = "synth_create"
                     /\ UNCHANGED <<endCount, heartbeat, clearCount, failedStage>>
         ELSE /\ log' = sendStatus(log, finishedMsg(experts[i]))
              /\ UNCHANGED <<pc, calls, endCount, heartbeat, clearCount, failedStage>>
    /\ UNCHANGED <<body, headers, flushed, aborted, keepAlives, snapshot,
                   classification, experts, streamed, closedAt, closedPc>>

\* Variant: the map callback writes the "finished" status of a failed call.
ExpertRejectedFinishes(i, o) ==
    /\ UNCHANGED <<qvars, pvars>>
    /\ UNCHANGED stream
    /\ i \in 1..Len(estate)
    /\ estate[i] = "inflight"
    /\ o \in ExpertOutcomes \ {"ok"}
    /\ estate' = [estate EXCEPT ![i] = o]
    /\ IF pc = "experts"
         THEN CatchExit(sendStatus(log, finishedMsg(experts[i])), o)
         ELSE /\ log' = sendStatus(log, finishedMsg(experts[i]))
              /\ UNCHANGED <<pc, endCount, heartbeat, clearCount, failedStage>>
    /\ UNCHANGED <<body, headers, flushed, aborted, keepAlives, calls, snapshot,
                   classification, experts, streamed, closedAt, closedPc>>

\* The request of expert i failed (o = "apierror") or returned text that
\* JSON.parse rejects (o = "unparseable"): runExpertAnalysis throws, the map
\* callback rejects and, if it is the first rejection, Promise.all rejects.
ExpertRejected(i, o) ==
    /\ UNCHANGED <<qvars, pvars>>
    /\ UNCHANGED stream
    /\ i \in 1..Len(estate)
    /\ estate[i] = "inflight"
    /\ o \in ExpertOutcomes \ {"ok"}
    /\ estate' = [estate EXCEPT ![i] = o]
    /\ IF pc = "experts"
         THEN CatchExit(log, o)
         ELSE UNCHANGED <<log, pc, endCount, heartbeat, clearCount, failedStage>>
    /\ UNCHANGED <<body, headers, flushed, aborted, keepAlives, calls, snapshot,
                   classification, experts, streamed, closedAt, closedPc>>

\* The streams the completion service can deliver: each event is a text delta
\* or an event of another type.
SynthStreams == UNION {[1..n -> {"response.output_text.delta", "response.completed"}] :
                          n \in 0..MaxStream}

\* streamFinalAnalysis: client.responses.create resolved with a stream.
SynthCreated(evs) ==
    /\ UNCHANGED <<qvars, pvars>>
    /\ pc = "synth_create"
    /\ stream' = evs
    /\ pc' = "streaming"
    /\ UNCHANGED <<body, headers, flushed, aborted, heartbeat, clearCount, endCount,
                   log, keepAlives, calls, snapshot, classification, experts,
                   estate, streamed, closedAt, closedPc, failedStage>>

\* client.responses.create rejected.
SynthRejected ==
    /\ UNCHANGED <<qvars, pvars>>
    /\ UNCHANGED stream
    /\ pc = "synth_create"
    /\ CatchExit(log, "synthesis failed")
    /\ UNCHANGED <<body, headers, flushed, aborted, keepAlives, calls, snapshot,
                   classification, experts, estate, streamed, closedAt, closedPc>>

\* One "response.output_text.delta" event of the stream: forwarded as {delta}.
StreamDelta ==
    /\ UNCHANGED <<qvars, pvars>>
    /\ UNCHANGED stream
    /\ pc = "streaming"
    /\ streamed < Len(stream)
    /\ stream[streamed + 1] = "response.output_text.delta"
    /\ streamed' = streamed + 1
    /\ log' = Append(log, deltaEvent)
    /\ UNCHANGED <<pc, body, headers, flushed, aborted, heartbeat, clearCount,
                   endCount, keepAlives, calls, snapshot, classification, experts,
                   estate, closedAt, closedPc, failedStage>>

\* A stream event of another type: nothing is written.
StreamOther ==
    /\ UNCHANGED <<qvars, pvars>>
    /\ UNCHANGED stream
    /\ pc = "streaming"
    /\ streamed < Len(stream)
    /\ stream[streamed + 1] # "response.output_text.delta"
    /\ streamed' = streamed + 1
    /\ UNCHANGED <<pc, body, headers, flushed, aborted, heartbeat, clearCount,
                   endCount, log, keepAlives, calls, snapshot, classification,
                   experts, estate, closedAt, closedPc, failedStage>>

\* The completion events written when the stream is exhausted:
\* streamFinalAnalysis writes {done: true}, then `create` writes {done: true}.
completionEvents == <<doneEvent, doneEvent>>

\* Variant: the loop may leave after any event.
streamLeftEarly == TRUE

\* The for-await loop leaves when the stream has delivered its last event.
streamExhausted == streamed = Len(stream)

\* The stream is exhausted: completion, res.end(), finally.
StreamEnd ==
    /\ UNCHANGED <<qvars, pvars>>
    /\ UNCHANGED stream
    /\ pc = "streaming"
    /\ streamExhausted
    /\ log' = log \o completionEvents
    /\ endCount' = resEnd(endCount)
    /\ heartbeat' = "cleared"
    /\ clearCount' = clearCount + 1
    /\ pc' = "done"
    /\ UNCHANGED <<body, headers, flushed, aborted, keepAlives, calls, snapshot,
                   classification, experts, estate, streamed, closedAt, closedPc,
                   failedStage>>

\* The stream fails while it is iterated.
StreamFailed ==
    /\ UNCHANGED <<qvars, pvars>>
    /\ UNCHANGED stream
    /\ pc = "streaming"
    /\ CatchExit(log, "stream failed")
    /\ UNCHANGED <<body, headers, flushed, aborted, keepAlives, calls, snapshot,
                   classification, experts, estate, streamed, closedAt, closedPc>>

\* req "aborted" / res "close": the listeners set the flag, nothing else.
ClientClose ==
    /\ UNCHANGED <<qvars, pvars>>
    /\ UNCHANGED stream
    /\ pc # "idle"
    /\ closedAt = -1
    /\ aborted' = TRUE
    /\ closedAt' = Len(log)
    /\ closedPc' = pc
    /\ UNCHANGED <<pc, body, headers, flushed, heartbeat, clearCount, endCount, log,
                   keepAlives, calls, snapshot, classification, experts, estate,
                   streamed, failedStage>>

\* The heartbeat interval fires while the timer is set.
HeartbeatTick ==
    /\ UNCHANGED <<qvars, pvars>>
    /\ UNCHANGED stream
    /\ heartbeat = "active"
    /\ keepAlives < MaxKeepAlives
    /\ keepAlives' = keepAlives + 1
    /\ UNCHANGED <<pc, body, headers, flushed, aborted, heartbeat, clearCount,
                   endCount, log, calls, snapshot, classification, experts, estate,
                   streamed, closedAt, closedPc, failedStage>>

\* What Promise.all of runExpertsStatusOnly resolves with: per selected
\* expert null, or the record {expertId, data} that runExpertAnalysis returns.
NullResult == [expertId |-> "", data |-> "null"]

\* Variant: the results are collected in the order the calls complete.
expertResponsesAsCompleted ==
    LET finishedAt(k) ==
            CHOOSE i \in DOMAIN log : log[i] = statusEvent(finishedMsg(experts[k]))
        finished == {k \in DOMAIN experts :
                        \E i \in DOMAIN log : log[i] = statusEvent(finishedMsg(experts[k]))}
        nth(n) == CHOOSE k \in finished :
                      Cardinality({j \in finished : finishedAt(j) < finishedAt(k)}) = n - 1
    IN  [n \in 1..Cardinality(finished) |->
            [expertId |-> experts[nth(n)], data |-> estate[nth(n)]]]

expertResponses ==
    [i \in DOMAIN experts |->
        IF estate[i] = "null" THEN NullResult
        ELSE [expertId |-> experts[i], data |-> estate[i]]]

\* The object `create` passes to streamFinalAnalysis, which destructures
\* expertResponses, question, classification, res and snapshot from it.
streamFinalAnalysisArgs ==
    [expertResponses |-> expertResponses,
     question |-> body.question,
     classification |-> classification,
     res |-> "res",
     sendStatus |-> "sendStatus"]

----------------------------------------------------------------------------
(* The handler `question` of controllers/openai.mjs *)

\* Strings over a two-letter alphabet, up to MaxLen characters.
Alphabet == {Blank, "q"}
QStrings == UNION {[1..n -> Alphabet] : n \in 0..MaxLen}
QBodies == [question : QStrings \cup {Undefined}, accountId : QStrings \cup {Undefined}]

\* String.prototype.trim
RECURSIVE ltrim(_)
ltrim(s) == IF s # <<>> /\ Head(s) = Blank THEN ltrim(Tail(s)) ELSE s

RECURSIVE rtrim(_)
rtrim(s) == IF s # <<>> /\ s[Len(s)] = Blank THEN rtrim(SubSeq(s, 1, Len(s) - 1)) ELSE s

trim(s) == rtrim(ltrim(s))

\* `v?.trim()` and `!v` for a string or absent value
optTrim(v) == IF v = Undefined THEN Undefined ELSE trim(v)
falsy(v) == v = Undefined \/ v = <<>>

\* Variant: the validation tests the raw fields.
invalidRequestNoTrim(b) == falsy(b.question) \/ falsy(b.accountId)

\* `!userQuestion?.trim() || !accountId?.trim()`
invalidRequest(b) == falsy(optTrim(b.question)) \/ falsy(optTrim(b.accountId))

qevent(t, a, c) == [type |-> t, agent |-> a, content |-> c]

\* setSSEHeaders plus the Content-Encoding header of `question`
QSSEHeaders == {"Content-Type", "Cache-Control", "Connection",
                "Access-Control-Allow-Origin"}

\* The body of the try block after the first comment ping, as the steps the
\* handler goes through: send = sendSSESafe, call = an awaited external call,
\* check = `if (clientDisconnected) return safeEnd()`, stream = the for-await
\* loop of streamResponseTextToSSE, write = res.write, end = safeEnd.
QProgram ==
    << [op |-> "send",  type |-> "status",         agent |-> "initial"],
       [op |-> "call",  type |-> "getFinancialSnapshot", agent |-> ""],
       [op |-> "check", type |-> "",               agent |-> ""],
       [op |-> "send",  type |-> "agent_start",    agent |-> "financial"],
       [op |-> "call",  type |-> "createStructuredResponse", agent |-> "financial"],
       [op |-> "check", type |-> "",               agent |-> ""],
       [op |-> "send",  type |-> "agent_complete", agent |-> "financial"],
       [op |-> "check", type |-> "",               agent |-> ""],
       [op |-> "send",  type |-> "agent_start",    agent |-> "psychology"],
       [op |-> "call",  type |-> "createStructuredResponse", agent |-> "psychology"],
       [op |-> "check", type |-> "",               agent |-> ""],
       [op |-> "send",  type |-> "agent_complete", agent |-> "psychology"],
       [op |-> "check", type |-> "",               agent |-> ""],
       [op |-> "send",  type |-> "agent_start",    agent |-> "final"],
       [op |-> "call",  type |-> "createStreamingFinalResponse", agent |-> "final"],
       [op |-> "check", type |-> "",               agent |-> ""],
       [op |-> "stream", type |-> "",              agent |-> ""],
       [op |-> "check", type |-> "",               agent |-> ""],
       [op |-> "send",  type |-> "agent_complete", agent |-> "final"],
       [op |-> "send",  type |-> "complete",       agent |-> ""],
       [op |-> "write", type |-> "[DONE]",         agent |-> ""],
       [op |-> "end",   type |-> "",               agent |-> ""] >>

\* Variant: the completion event carries fullText untrimmed.
qpayloadRaw(step, full) == IF step.type = "complete" THEN full ELSE <<>>

\* The payload of a sent event: the completion event carries the answer
\* returned by streamResponseTextToSSE, fullText.trim().
qpayload(step, full) == IF step.type = "complete" THEN trim(full) ELSE <<>>

\* Runs the handler from step i until it suspends or returns.  oks are the
\* results of the res.write calls of sendSSESafe in this turn (false: the
\* buffer is full and sendSSESafe awaits "drain").  disc is clientDisconnected.
RECURSIVE QRun(_, _, _, _, _, _)
QRun(i, lg, cl, oks, disc, full) ==
    LET step == QProgram[i] IN
    CASE step.op = "check" ->
           IF disc
             THEN [state |-> "aborted", pc |-> i, wait |-> "none", log |-> lg,
                   calls |-> cl, ends |-> 1]
             ELSE QRun(i + 1, lg, cl, oks, disc, full)
      [] step.op = "send" ->
           IF disc
             THEN QRun(i + 1, lg, cl, oks, disc, full)
             ELSE LET lg2 == Append(lg, qevent(step.type, step.agent, qpayload(step, full)))
                  IN  IF Head(oks)
                        THEN QRun(i + 1, lg2, cl, Tail(oks), disc, full)
                        ELSE [state |-> "running", pc |-> i + 1, wait |-> "drain",
                              log |-> lg2, calls |-> cl, ends |-> 0]
      [] step.op = "call" ->
           [state |-> "running", pc |-> i + 1, wait |-> "io", log |-> lg,
            calls |-> Append(cl, step.type), ends |-> 0]
      [] step.op = "stream" ->
           [state |-> "running", pc |-> i + 1, wait |-> "stream", log |-> lg,
            calls |-> cl, ends |-> 0]
      [] step.op = "write" ->
           QRun(i + 1, Append(lg, qevent(step.type, step.agent, <<>>)), cl, oks, disc, full)
      [] step.op = "end" ->
           [state |-> "done", pc |-> i, wait |-> "none", log |-> lg, calls |-> cl,
            ends |-> 1]

\* Results of the res.write calls of one turn (at most two sends per turn).
WriteResults == [1..2 -> BOOLEAN]

\* The handler continues from step i; buf is the state of the outbound buffer
\* when it does.
QResume(i, lg, oks, buf) ==
    LET r == QRun(i, lg, qcalls, oks, qdisc, qfull) IN
    /\ qbuf' = IF r.wait = "drain" THEN "full" ELSE buf
    /\ qstate' = r.state
    /\ qpc' = r.pc
    /\ qwait' = r.wait
    /\ qlog' = r.log
    /\ qcalls' = r.calls
    /\ qend' = qend + r.ends

\* The outer catch block: SSE headers if none were sent, one error event, safeEnd.
QCatch ==
    /\ qstate' = "error"
    /\ qwait' = "none"
    /\ qheaders' = IF qflushed THEN qheaders ELSE QSSEHeaders
    /\ qflushed' = TRUE
    /\ qlog' = (IF qflushed THEN qlog ELSE Append(qlog, qevent("comment", "", <<>>)))
                 \o <<qevent("error", "", <<>>)>>
    /\ qend' = qend + 1
    /\ UNCHANGED <<qpc, qbody, qstatus, qjson, qdisc, qcalls, qfull, qstreamed,
                   qclosedAt, qbuf>>

\* Entry of `question`: validation, then SSE headers, flush, comment ping and
\* the first status event.
Question(b, oks) ==
    /\ UNCHANGED <<cvars, pvars>>
    /\ qstate = "idle"
    /\ qbody' = b
    /\ IF invalidRequest(b)
         THEN /\ qstatus' = 400
              /\ qjson' = TRUE
              /\ qend' = qend + 1
              /\ qstate' = "rejected"
              /\ UNCHANGED <<qpc, qwait, qheaders, qflushed, qlog, qcalls, qbuf>>
         ELSE /\ qheaders' = QSSEHeaders \cup {"Content-Encoding"}
              /\ qflushed' = TRUE
              /\ QResume(1, Append(qlog, qevent("comment", "", <<>>)), oks, qbuf)
              /\ UNCHANGED <<qstatus, qjson>>
    /\ UNCHANGED <<qdisc, qfull, qstreamed, qclosedAt>>

\* An awaited external call resolved.
QCallResolved(oks) ==
    /\ UNCHANGED <<cvars, pvars>>
    /\ qstate = "running"
    /\ qwait = "io"
    /\ QResume(qpc, qlog, oks, qbuf)
    /\ UNCHANGED <<qbody, qheaders, qflushed, qstatus, qjson, qdisc, qfull,
                   qstreamed, qclosedAt>>

\* An awaited external call rejected.
QCallRejected ==
    /\ UNCHANGED <<cvars, pvars>>
    /\ qstate = "running"
    /\ qwait = "io"
    /\ QCatch

\* "drain" fires on the response: sendSSESafe returns.
QDrain(oks) ==
    /\ UNCHANGED <<cvars, pvars>>
    /\ qstate = "running"
    /\ qwait = "drain"
    /\ ~qdisc
    /\ QResume(qpc, qlog, oks, "ok")
    /\ UNCHANGED <<qbody, qheaders, qflushed, qstatus, qjson, qdisc, qfull,
                   qstreamed, qclosedAt>>

\* Events of the final stream: a text delta (possibly absent or empty), an
\* event of another type, an event without a type.
QStreamEvents ==
    {[type |-> "response.output_text.delta", delta |-> d] :
        d \in {Undefined, <<>>, <<Blank>>, <<"q">>}}
    \cup {[type |-> "response.completed", delta |-> Undefined],
          [type |-> "", delta |-> Undefined]}

\* One iteration of the loop of streamResponseTextToSSE; ok is what res.write
\* returns to sendSSE, which drops it.
QStreamEvent(ev, ok) ==
    /\ UNCHANGED <<cvars, pvars>>
    /\ qstate = "running"
    /\ qwait = "stream"
    /\ qstreamed < MaxStream
    /\ qstreamed' = qstreamed + 1
    /\ LET delta == IF ev.delta = Undefined THEN <<>> ELSE ev.delta IN
       IF ev.type = "response.output_text.delta" /\ delta # <<>>
         THEN /\ qfull' = qfull \o delta
              /\ qlog' = Append(qlog, qevent("answer_chunk", "", delta))
              /\ qbuf' = IF ok THEN qbuf ELSE "full"
         ELSE UNCHANGED <<qfull, qlog, qbuf>>
    /\ UNCHANGED <<qstate, qpc, qwait, qbody, qheaders, qflushed, qstatus, qjson,
                   qdisc, qend, qcalls, qclosedAt>>

\* "drain" fires on the response while nothing listens for it.
QBufferDrained ==
    /\ UNCHANGED <<cvars, pvars>>
    /\ qstate = "running"
    /\ qwait = "stream"
    /\ qbuf = "full"
    /\ ~qdisc
    /\ qbuf' = "ok"
    /\ UNCHANGED <<qstate, qpc, qwait, qbody, qheaders, qflushed, qstatus, qjson,
                   qlog, qdisc, qend, qcalls, qfull, qstreamed, qclosedAt>>

\* The final stream is exhausted.
QStreamEnd(oks) ==
    /\ UNCHANGED <<cvars, pvars>>
    /\ qstate = "running"
    /\ qwait = "stream"
    /\ QResume(qpc, qlog, oks, qbuf)
    /\ UNCHANGED <<qbody, qheaders, qflushed, qstatus, qjson, qdisc, qfull,
                   qstreamed, qclosedAt>>

\* The final stream fails while it is iterated.
QStreamFailed ==
    /\ UNCHANGED <<cvars, pvars>>
    /\ qstate = "running"
    /\ qwait = "stream"
    /\ QCatch

\* req "aborted" / res "close".
QClientClose ==
    /\ UNCHANGED <<cvars, pvars>>
    /\ qstate # "idle"
    /\ ~qdisc
    /\ qdisc' = TRUE
    /\ qclosedAt' = Len(qlog)
    /\ UNCHANGED <<qstate, qpc, qwait, qbody, qheaders, qflushed, qstatus, qjson,
                   qlog, qend, qcalls, qfull, qstreamed, qbuf>>

QIdle ==
    /\ qstate = "idle"
    /\ qpc = 0
    /\ qwait = "none"
    /\ qbody = [question |-> Undefined, accountId |-> Undefined]
    /\ qheaders = {}
    /\ qflushed = FALSE
    /\ qstatus = 0
    /\ qjson = FALSE
    /\ qlog = <<>>
    /\ qdisc = FALSE
    /\ qend = 0
    /\ qcalls = <<>>
    /\ qfull = <<>>
    /\ qstreamed = 0
    /\ qclosedAt = -1
    /\ qbuf = "ok"

CIdle ==
    /\ pc = "idle"
    /\ body = [question |-> Undefined, accountId |-> Undefined]
    /\ headers = {}
    /\ flushed = FALSE
    /\ aborted = FALSE
    /\ heartbeat = "none"
    /\ clearCount = 0
    /\ endCount = 0
    /\ log = <<>>
    /\ keepAlives = 0
    /\ calls = <<>>
    /\ snapshot = NoSnapshot
    /\ classification = NoClassification
    /\ experts = <<>>
    /\ estate = <<>>
    /\ stream = <<>>
    /\ streamed = 0
    /\ closedAt = -1
    /\ closedPc = ""
    /\ failedStage = ""

SIdle ==
    /\ sstate = "off"
    /\ sdb = EmptyDb
    /\ ssnap = getFinancialSnapshot(EmptyDb)

RIdle ==
    /\ rstate = "off"
    /\ rclass = NoClassification
    /\ rsnap = NoSnapshot
    /\ rout = <<>>

AIdle ==
    /\ astate = "off"
    /\ arouter = NullJson
    /\ ahints = NoHints
    /\ acands = <<>>
    /\ aout = <<>>

XIdle ==
    /\ xstate = "off"
    /\ xagent = ""
    /\ xtext = <<>>
    /\ xresult = NullJson

EdIdle ==
    /\ edpc = "off"
    /\ edlog = <<>>
    /\ edend = 0
    /\ edabort = FALSE
    /\ edtokens = 0
    /\ edclosedAt = -1
    /\ edclosedPc = ""

Requests == 1..MaxRequests

IIdle ==
    /\ ipc = [r \in Requests |-> "idle"]
    /\ iaborted = [r \in Requests |-> FALSE]
    /\ iheartbeat = [r \in Requests |-> "none"]
    /\ iwriters = [r \in Requests |-> {}]
    /\ iendedBy = [r \in Requests |-> {}]
    /\ iclearedBy = [r \in Requests |-> {}]
    /\ iclosed = [r \in Requests |-> FALSE]
    /\ ikeepAlives = [r \in Requests |-> 0]

\* selectAgents, runExpert, streamEditorToSSE and the concurrent requests are
\* not running.
OthersIdle == AIdle /\ XIdle /\ EdIdle /\ IIdle

PIdle == RIdle /\ SIdle /\ OthersIdle

Init == CIdle /\ QIdle /\ PIdle

Next ==
    \/ \E b \in Bodies : Create(b)
    \/ \E s \in Snapshots : SnapshotResolved(s)
    \/ SnapshotRejected
    \/ \E c \in ClassifierOutputs : ClassifyResolved(c)
    \/ ClassifyRejected
    \/ \E i \in DOMAIN estate : ExpertResolved(i)
    \/ \E i \in DOMAIN estate, o \in ExpertOutcomes \ {"ok"} : ExpertRejected(i, o)
    \/ \E evs \in SynthStreams : SynthCreated(evs)
    \/ SynthRejected
    \/ StreamDelta
    \/ StreamOther
    \/ StreamEnd
    \/ StreamFailed
    \/ ClientClose
    \/ HeartbeatTick

Spec == Init /\ [][Next]_vars

\* The requests of the specification with fairness: one body, and
\* classifications that select one, two, three and four experts or make the
\* router throw.
FairBodies == {[question |-> <<"q">>, accountId |-> <<"a">>]}
FairClassifierOutputs ==
    {[question_type |-> "lookup", emotional_state |-> "curious"],
     [question_type |-> "recommendation", emotional_state |-> "anxious"],
     [question_type |-> MissingField, emotional_state |-> "curious"]}

\* Every external call eventually returns or fails.
SnapshotSettles == (\E s \in Snapshots : SnapshotResolved(s)) \/ SnapshotRejected
ClassifierSettles ==
    (\E c \in FairClassifierOutputs : ClassifyResolved(c)) \/ ClassifyRejected
ExpertSettles ==
    \E i \in DOMAIN estate :
        ExpertResolved(i) \/ \E o \in ExpertOutcomes \ {"ok"} : ExpertRejected(i, o)
SynthesizerSettles == (\E evs \in SynthStreams : SynthCreated(evs)) \/ SynthRejected
StreamAdvances == StreamDelta \/ StreamOther \/ StreamEnd \/ StreamFailed

FairNext ==
    \/ \E b \in FairBodies : Create(b)
    \/ SnapshotSettles
    \/ ClassifierSettles
    \/ ExpertSettles
    \/ SynthesizerSettles
    \/ StreamAdvances
    \/ ClientClose
    \/ HeartbeatTick

CallsSettle ==
    /\ WF_vars(SnapshotSettles)
    /\ WF_vars(ClassifierSettles)
    /\ WF_vars(ExpertSettles)
    /\ WF_vars(SynthesizerSettles)
    /\ WF_vars(StreamAdvances)

SpecFair == Init /\ [][FairNext]_vars /\ CallsSettle

QNext ==
    \/ \E b \in QBodies, oks \in WriteResults : Question(b, oks)
    \/ \E oks \in WriteResults : QCallResolved(oks)
    \/ QCallRejected
    \/ \E oks \in WriteResults : QDrain(oks)
    \/ \E ev \in QStreamEvents, ok \in BOOLEAN : QStreamEvent(ev, ok)
    \/ QBufferDrained
    \/ \E oks \in WriteResults : QStreamEnd(oks)
    \/ QStreamFailed
    \/ QClientClose

SpecQ == Init /\ [][QNext]_vars

\* Every external call of `question` eventually returns or fails, the final
\* stream goes on until it ends or fails, and a full buffer of a connected
\* client eventually drains.
QCallSettles == (\E oks \in WriteResults : QCallResolved(oks)) \/ QCallRejected
QStreamAdvances ==
    \/ \E ev \in QStreamEvents, ok \in BOOLEAN : QStreamEvent(ev, ok)
    \/ \E oks \in WriteResults : QStreamEnd(oks)
    \/ QStreamFailed
QDrains == \E oks \in WriteResults : QDrain(oks)

SpecQFair ==
    /\ SpecQ
    /\ WF_vars(QCallSettles)
    /\ WF_vars(QStreamAdvances)
    /\ WF_vars(QDrains)

----------------------------------------------------------------------------
(* getFinancialSnapshot applied to the rows of a small data store *)

InitS ==
    /\ CIdle
    /\ QIdle
    /\ RIdle
    /\ OthersIdle
    /\ sstate = "db"
    /\ sdb = EmptyDb
    /\ ssnap = getFinancialSnapshot(EmptyDb)

\* The account gets one more row in table t (the spending query groups card
\* transactions and has no ORDER BY).
AddRow(t, v, f) ==
    /\ sstate = "db"
    /\ dbRows(sdb) < MaxRows
    /\ LET r == [value |-> v, frequency |-> IF t = "incomes" THEN f ELSE ""] IN
       sdb' = [sdb EXCEPT ![t] = IF t = "spending" THEN Append(@, r) ELSE insertDesc(@, r)]
    /\ UNCHANGED <<sstate, ssnap>>
    /\ UNCHANGED <<cvars, qvars, rvars, avars, xvars, edvars, ivars>>

\* One call of getFinancialSnapshot.
Fetch ==
    /\ sstate = "db"
    /\ sstate' = "fetched"
    /\ ssnap' = getFinancialSnapshot(sdb)
    /\ UNCHANGED sdb
    /\ UNCHANGED <<cvars, qvars, rvars, avars, xvars, edvars, ivars>>

SNext ==
    \/ \E t \in Tables, v \in DbValues, f \in DbFrequencies : AddRow(t, v, f)
    \/ Fetch

SpecS == InitS /\ [][SNext]_vars

----------------------------------------------------------------------------
(* routeToExperts applied to drawn arguments *)

\* The arguments: every classifier output and snapshots with no, small and
\* large liabilities.
RouterSnapshots == {[totals |-> [totalLiabilities |-> l]] : l \in {-12, 0, 1, 5000}}

\* The classifications routeToExperts is applied to: the classifier's outputs
\* and a question type that contains "tax" without being equal to it.
RouterClassifications ==
    ClassifierOutputs \cup
    [question_type : {"estate_tax"}, emotional_state : EmotionalStateOutputs]

InitR ==
    /\ CIdle
    /\ QIdle
    /\ rstate = "ready"
    /\ rclass \in RouterClassifications
    /\ rsnap \in RouterSnapshots
    /\ rout = <<>>
    /\ SIdle
    /\ OthersIdle

\* One call of routeToExperts(rclass, rsnap): it returns the selection or
\* throws the TypeError of `undefined.includes`.
Route ==
    /\ rstate = "ready"
    /\ IF routeThrows(rclass)
         THEN rstate' = "threw" /\ rout' = <<>>
         ELSE rstate' = "routed" /\ rout' = routeToExperts(rclass, rsnap)
    /\ UNCHANGED <<rclass, rsnap>>
    /\ UNCHANGED <<cvars, qvars, svars, avars, xvars, edvars, ivars>>

RNext == Route

SpecR == InitR /\ [][RNext]_vars

----------------------------------------------------------------------------
(* assertRouterShape and selectAgents applied to drawn arguments *)

InitA ==
    /\ CIdle
    /\ QIdle
    /\ RIdle
    /\ SIdle
    /\ XIdle
    /\ EdIdle
    /\ IIdle
    /\ astate = "parsed"
    /\ arouter \in ParsedRouters
    /\ ahints \in TopicHints
    /\ acands = <<>>
    /\ aout = <<>>

\* assertRouterShape(parsed) at the end of the router call.
AssertShape ==
    /\ astate = "parsed"
    /\ astate' = IF assertRouterShapeThrows(arouter) THEN "threw" ELSE "validated"
    /\ UNCHANGED <<arouter, ahints, acands, aout>>
    /\ UNCHANGED <<cvars, qvars, rvars, svars, xvars, edvars, ivars>>

\* selectAgents(router, hints) on a validated router output.
SelectAgents ==
    /\ astate = "validated"
    /\ astate' = "selected"
    /\ acands' = candidateAgents(arouter, ahints)
    /\ aout' = selectAgents(arouter, ahints)
    /\ UNCHANGED <<arouter, ahints>>
    /\ UNCHANGED <<cvars, qvars, rvars, svars, xvars, edvars, ivars>>

ANext ==
    \/ AssertShape
    \/ SelectAgents

SpecA == InitA /\ [][ANext]_vars

----------------------------------------------------------------------------
(* runExpert applied to drawn completions *)

AgentNames == {"quant", "risk_officer"}

InitX ==
    /\ CIdle
    /\ QIdle
    /\ RIdle
    /\ SIdle
    /\ AIdle
    /\ EdIdle
    /\ IIdle
    /\ xstate = "called"
    /\ xagent \in AgentNames
    /\ xtext \in Texts
    /\ xresult = NullJson

\* The completion of runExpert returned the text xtext.
ExpertCompletionResolved ==
    /\ xstate = "called"
    /\ xresult' = runExpert(xagent, xtext)
    /\ xstate' = IF xresult'.raised = "" THEN "returned" ELSE "threw"
    /\ UNCHANGED <<xagent, xtext>>
    /\ UNCHANGED <<cvars, qvars, rvars, svars, avars, edvars, ivars>>

\* The completion failed or withTimeout gave up after 20 s: runExpert rejects.
ExpertCompletionRejected ==
    /\ xstate = "called"
    /\ xresult' = raisedError("completion failed")
    /\ xstate' = "threw"
    /\ UNCHANGED <<xagent, xtext>>
    /\ UNCHANGED <<cvars, qvars, rvars, svars, avars, edvars, ivars>>

XNext ==
    \/ ExpertCompletionResolved
    \/ ExpertCompletionRejected

SpecX == InitX /\ [][XNext]_vars

----------------------------------------------------------------------------
(* streamEditorToSSE of controllers/samepl.js *)

\* sseSend(res, event, data)
sseSend(ch, event, data) == Append(ch, [event |-> event, data |-> data])

\* The content of a chunk of the editor stream, "" when it has none.
ChunkDeltas == {"", "a", "b"}

InitE ==
    /\ CIdle
    /\ QIdle
    /\ RIdle
    /\ SIdle
    /\ AIdle
    /\ XIdle
    /\ IIdle
    /\ edpc = "called"
    /\ edlog = <<>>
    /\ edend = 0
    /\ edabort = FALSE
    /\ edtokens = 0
    /\ edclosedAt = -1
    /\ edclosedPc = ""

\* The catch block of streamEditorToSSE.
EdCatch ==
    /\ IF ~edabort
         THEN edlog' = sseSend(edlog, "error", "err") /\ edend' = edend + 1
         ELSE UNCHANGED <<edlog, edend>>
    /\ edpc' = "returned"
    /\ UNCHANGED <<edabort, edtokens, edclosedAt, edclosedPc>>

\* Entry up to the first await: sseInit, the "close" listener, the request.
EdStart ==
    /\ edpc = "called"
    /\ edpc' = "creating"
    /\ UNCHANGED <<edlog, edend, edabort, edtokens, edclosedAt, edclosedPc>>
    /\ UNCHANGED <<cvars, qvars, rvars, svars, avars, xvars, ivars>>

\* client.chat.completions.create resolved with the stream.
EdCreateResolved ==
    /\ edpc = "creating"
    /\ ~edabort
    /\ edpc' = "streaming"
    /\ UNCHANGED <<edlog, edend, edabort, edtokens, edclosedAt, edclosedPc>>
    /\ UNCHANGED <<cvars, qvars, rvars, svars, avars, xvars, ivars>>

\* client.chat.completions.create rejected: the request failed, or its
\* signal was aborted.
EdCreateRejected ==
    /\ edpc = "creating"
    /\ EdCatch
    /\ UNCHANGED <<cvars, qvars, rvars, svars, avars, xvars, ivars>>

\* One chunk of the stream; delta is its content, "" when it has none.
EdChunk(delta) ==
    /\ edpc = "streaming"
    /\ ~edabort
    /\ edtokens < MaxChunks
    /\ edtokens' = edtokens + 1
    /\ edlog' = IF delta # "" THEN sseSend(edlog, "token", delta) ELSE edlog
    /\ UNCHANGED <<edpc, edend, edabort, edclosedAt, edclosedPc>>
    /\ UNCHANGED <<cvars, qvars, rvars, svars, avars, xvars, ivars>>

\* The for-await loop ends: the stream is exhausted, or its request was
\* aborted and the iteration of the client library ends without an error.
EdStreamEnd ==
    /\ edpc = "streaming"
    /\ edlog' = sseSend(edlog, "done", "ok")
    /\ edend' = edend + 1
    /\ edpc' = "returned"
    /\ UNCHANGED <<edabort, edtokens, edclosedAt, edclosedPc>>
    /\ UNCHANGED <<cvars, qvars, rvars, svars, avars, xvars, ivars>>

\* The iteration throws: the stream failed, or its request was aborted and
\* the iteration raises the abort error.
EdStreamFailed ==
    /\ edpc = "streaming"
    /\ EdCatch
    /\ UNCHANGED <<cvars, qvars, rvars, svars, avars, xvars, ivars>>

\* res "close": the listener aborts the controller.
EdClose ==
    /\ edpc \in {"creating", "streaming", "returned"}
    /\ edclosedAt = -1
    /\ edabort' = TRUE
    /\ edclosedAt' = Len(edlog)
    /\ edclosedPc' = edpc
    /\ UNCHANGED <<edpc, edlog, edend, edtokens>>
    /\ UNCHANGED <<cvars, qvars, rvars, svars, avars, xvars, ivars>>

ENext ==
    \/ EdStart
    \/ EdCreateResolved
    \/ EdCreateRejected
    \/ \E delta \in ChunkDeltas : EdChunk(delta)
    \/ EdStreamEnd
    \/ EdStreamFailed
    \/ EdClose

SpecE == InitE /\ [][ENext]_vars

----------------------------------------------------------------------------
(* Several requests of `create` in flight *)

\* The stages of one request as seen from the others: each stage is one
\* await; the stage after "synth" is the completion.
nextStage(p) ==
    CASE p = "snapshot" -> "classify"
      [] p = "classify" -> "experts"
      [] p = "experts" -> "synth"
      [] p = "synth" -> "done"

InFlight == {"snapshot", "classify", "experts", "synth"}

\* Request r leaves through one of its exits: res.end() and the finally block.
IExit(r, p) ==
    /\ ipc' = [ipc EXCEPT ![r] = p]
    /\ iendedBy' = [iendedBy EXCEPT ![r] = @ \cup {r}]
    /\ iheartbeat' = [iheartbeat EXCEPT ![r] = "cleared"]
    /\ iclearedBy' = [iclearedBy EXCEPT ![r] = @ \cup {r}]

IInit ==
    /\ CIdle
    /\ QIdle
    /\ RIdle
    /\ SIdle
    /\ AIdle
    /\ XIdle
    /\ EdIdle
    /\ IIdle

\* `create` is called for request r: its own flag, listeners, timer, status.
ICreate(r) ==
    /\ ipc[r] = "idle"
    /\ ipc' = [ipc EXCEPT ![r] = "snapshot"]
    /\ iaborted' = [iaborted EXCEPT ![r] = FALSE]
    /\ iheartbeat' = [iheartbeat EXCEPT ![r] = "active"]
    /\ iwriters' = [iwriters EXCEPT ![r] = @ \cup {r}]
    /\ UNCHANGED <<iendedBy, iclearedBy, iclosed, ikeepAlives>>
    /\ UNCHANGED <<cvars, qvars, rvars, svars, avars, xvars, edvars>>

\* The await of the current stage of request r returned.
IStageResolved(r) ==
    /\ ipc[r] \in InFlight
    /\ IF ipc[r] = "synth"
         THEN /\ IExit(r, "done")
              /\ iwriters' = [iwriters EXCEPT ![r] = @ \cup {r}]
         ELSE IF iaborted[r]
           THEN IExit(r, "aborted") /\ UNCHANGED iwriters
           ELSE /\ ipc' = [ipc EXCEPT ![r] = nextStage(ipc[r])]
                /\ iwriters' = [iwriters EXCEPT ![r] = @ \cup {r}]
                /\ UNCHANGED <<iendedBy, iheartbeat, iclearedBy>>
    /\ UNCHANGED <<iaborted, iclosed, ikeepAlives>>
    /\ UNCHANGED <<cvars, qvars, rvars, svars, avars, xvars, edvars>>

\* The await of the current stage of request r failed: the catch block.
IStageRejected(r) ==
    /\ ipc[r] \in InFlight
    /\ IExit(r, "error")
    /\ iwriters' = [iwriters EXCEPT ![r] = @ \cup {r}]
    /\ UNCHANGED <<iaborted, iclosed, ikeepAlives>>
    /\ UNCHANGED <<cvars, qvars, rvars, svars, avars, xvars, edvars>>

\* Variant: the flag is one variable of the module, shared by the requests.
IClientCloseShared(r) ==
    /\ ipc[r] # "idle"
    /\ ~iclosed[r]
    /\ iclosed' = [iclosed EXCEPT ![r] = TRUE]
    /\ iaborted' = [q \in Requests |-> TRUE]
    /\ UNCHANGED <<ipc, iheartbeat, iwriters, iendedBy, iclearedBy, ikeepAlives>>
    /\ UNCHANGED <<cvars, qvars, rvars, svars, avars, xvars, edvars>>

\* The client of request r disconnects: the listeners of r set r's flag.
IClientClose(r) ==
    /\ ipc[r] # "idle"
    /\ ~iclosed[r]
    /\ iclosed' = [iclosed EXCEPT ![r] = TRUE]
    /\ iaborted' = [iaborted EXCEPT ![r] = TRUE]
    /\ UNCHANGED <<ipc, iheartbeat, iwriters, iendedBy, iclearedBy, ikeepAlives>>
    /\ UNCHANGED <<cvars, qvars, rvars, svars, avars, xvars, edvars>>

\* The timer of request r fires: a keep-alive comment on r's response.
IHeartbeatTick(r) ==
    /\ iheartbeat[r] = "active"
    /\ ikeepAlives[r] < MaxKeepAlives
    /\ ikeepAlives' = [ikeepAlives EXCEPT ![r] = @ + 1]
    /\ iwriters' = [iwriters EXCEPT ![r] = @ \cup {r}]
    /\ UNCHANGED <<ipc, iaborted, iheartbeat, iendedBy, iclearedBy, iclosed>>
    /\ UNCHANGED <<cvars, qvars, rvars, svars, avars, xvars, edvars>>

INext ==
    \E r \in Requests :
        \/ ICreate(r)
        \/ IStageResolved(r)
        \/ IStageRejected(r)
        \/ IClientClose(r)
        \/ IHeartbeatTick(r)

SpecI == IInit /\ [][INext]_vars

----------------------------------------------------------------------------
(* Properties of `create` (checked under Spec) *)

isTerminalEvent(ev) == ev.type \in {"done", "error"}

isExpertStatus(ev) ==
    /\ ev.type = "status"
    /\ \E e \in DOMAIN expertPanel : ev.msg \in {startedMsg(e), finishedMsg(e)}

errorCount == Cardinality({i \in DOMAIN log : log[i].type = "error"})

expertCalls == {i \in DOMAIN calls : calls[i] \in DOMAIN expertPanel}

\* C1: on every exit path of a request (completion, stage failure, disconnect
\* seen at a stage boundary) the heartbeat is cleared exactly once and the
\* response is ended exactly once; before the exit neither has happened, and
\* it never happens twice.
ReleasedExactlyOnce ==
    /\ endCount <= 1
    /\ clearCount <= 1
    /\ pc \in Terminal => endCount = 1 /\ clearCount = 1 /\ heartbeat = "cleared"
    /\ pc \notin Terminal => endCount = 0 /\ clearCount = 0
    /\ pc \notin Terminal \cup {"idle"} => heartbeat = "active"

ReleasedAfterDisconnect ==
    pc = "aborted" /\ Len(experts) > 1 /\ endCount = 1 /\ clearCount = 1

\* C2 (as claimed): once the completion event or the error event has been
\* written, no further event is written to the channel.
NoEventAfterTerminal ==
    \A i \in DOMAIN log : isTerminalEvent(log[i]) => i = Len(log)

\* C3: in a run without stage failure and with the client connected, the
\* events appear in the order snapshot status, classification status, expert
\* start/finish statuses, answer fragments, completion; a completed run has
\* both statuses of every selected expert.
rank(ev) ==
    CASE ev.type = "status" /\ ev.msg = "Fetching financial data for account" -> 0
      [] ev.type = "status" /\ ev.msg = "Routing your question to the right expert..." -> 1
      [] isExpertStatus(ev) -> 2
      [] ev.type = "delta" -> 3
      [] ev.type = "done" -> 4
      [] OTHER -> 5

EventOrder ==
    (failedStage = "" /\ closedAt = -1) =>
        /\ \A i, j \in DOMAIN log : i < j => rank(log[i]) <= rank(log[j])
        /\ \A i \in DOMAIN log : rank(log[i]) < 5
        /\ Cardinality({i \in DOMAIN log : rank(log[i]) = 0}) = (IF pc = "idle" THEN 0 ELSE 1)
        /\ Cardinality({i \in DOMAIN log : rank(log[i]) = 1}) <= 1
        /\ pc = "done" =>
             /\ Cardinality({i \in DOMAIN log : rank(log[i]) = 1}) = 1
             /\ \A k \in DOMAIN experts :
                  \E i, j \in DOMAIN log :
                     /\ i < j
                     /\ log[i] = statusEvent(startedMsg(experts[k]))
                     /\ log[j] = statusEvent(finishedMsg(experts[k]))
             /\ log[Len(log)].type = "done"

CompletedInOrder ==
    /\ pc = "done"
    /\ closedAt = -1
    /\ Len(experts) >= 3
    /\ \E i \in DOMAIN log : log[i].type = "delta"

\* C4 (as claimed): when exactly one selected expert returns unparseable
\* output, the client stays connected and nothing else fails, the run does
\* not end in ERROR and no error event is written.
DegradedExpertTolerated ==
    ( /\ Cardinality({i \in DOMAIN estate : estate[i] = "unparseable"}) = 1
      /\ \A i \in DOMAIN estate : estate[i] # "apierror"
      /\ closedAt = -1 )
    => (pc # "error" /\ errorCount = 0)

\* C5 (as claimed): when the client-closed signal fires before the experts
\* stage begins, no expert call is issued and the run ends in ABORTED, with
\* neither a completion nor an error event, whatever the stage in flight does.
DisconnectBeforeExperts ==
    closedPc \in {"snapshot", "classify"} =>
        /\ expertCalls = {}
        /\ pc \in Terminal => pc = "aborted"
        /\ \A i \in DOMAIN log : ~isTerminalEvent(log[i])

\* C6 (as claimed): a request with an empty or missing question is rejected
\* before the channel is opened: no header, no flush, no event, no external
\* call, no heartbeat timer.
EmptyQuestionRejected ==
    (pc # "idle" /\ falsy(body.question)) =>
        /\ headers = {}
        /\ ~flushed
        /\ log = <<>>
        /\ calls = <<>>
        /\ heartbeat = "none"

\* C8: a stage failure is answered with exactly one error event, after which
\* the response is ended and the heartbeat cleared; no request carries two
\* error events, and no error event is written unless a stage failed.
failedWhileOpen ==
    /\ failedStage # ""
    /\ \/ closedAt = -1
       \/ \E i \in DOMAIN log : log[i].type = "error" /\ i <= closedAt

OneErrorEvent ==
    /\ errorCount <= 1
    /\ errorCount = 1 => failedStage # ""
    /\ (failedStage # "" /\ closedAt = -1) => errorCount = 1
    /\ failedWhileOpen => errorCount = 1 /\ endCount = 1 /\ heartbeat = "cleared"
    /\ (\E i \in DOMAIN estate : estate[i] \in {"unparseable", "apierror"}) =>
          failedStage = "experts"
    /\ pc = "error" <=> failedStage # ""

ErrorReported ==
    /\ pc = "error"
    /\ failedStage = "experts"
    /\ closedAt = -1
    /\ errorCount = 1
    /\ Cardinality({i \in DOMAIN estate : estate[i] # "ok" /\ estate[i] # "inflight"}) = 2

\* C9 (as claimed): after the client-closed signal has fired no error event
\* is written to the channel.
NoErrorAfterClose ==
    closedAt >= 0 => \A i \in DOMAIN log : i > closedAt => log[i].type # "error"

\* C10: a stage-boundary check that finds the client gone leads to ABORTED
\* without starting a stage, and ABORTED is absorbing: no stage call, no
\* event and no keep-alive line follows it.
AbortedAbsorbing ==
    [][ /\ (aborted /\ pc \in {"snapshot", "classify", "experts"} /\ pc' \notin {pc, "error"})
             => (pc' = "aborted" /\ calls' = calls)
        /\ pc = "aborted"
             => (pc' = "aborted" /\ log' = log /\ calls' = calls
                 /\ keepAlives' = keepAlives /\ endCount' = endCount) ]_vars

AbortedAtBoundary ==
    /\ pc = "aborted"
    /\ closedPc = "snapshot"
    /\ calls = <<"getFinancialSnapshot">>
    /\ Len(log) = 1

\* C11: the heartbeat timer is set in every non-terminal state of an opened
\* request and cleared on entry to DONE, ABORTED or ERROR; a keep-alive line
\* is written only while the response has not been ended.
KeepAliveLifetime ==
    [][ /\ (pc' \notin Terminal \cup {"idle"}) => heartbeat' = "active"
        /\ (pc' \in Terminal) => heartbeat' = "cleared"
        /\ (keepAlives' # keepAlives) => (endCount = 0 /\ pc \notin Terminal) ]_vars

KeepAliveThenClosed ==
    /\ pc = "done"
    /\ keepAlives >= 1
    /\ heartbeat = "cleared"
    /\ endCount = 1

\* C12 (as claimed): the classifier returns only classifications whose
\* question_type and emotional_state belong to INTENT_ROUTER_SCHEMA; on any
\* other output the request fails before the router or an expert runs.
ClassificationValidated ==
    classification # NoClassification =>
        \/ /\ classification.question_type \in INTENT_ROUTER_SCHEMA.question_type
           /\ classification.emotional_state \in INTENT_ROUTER_SCHEMA.emotional_state
        \/ /\ pc = "error"
           /\ \A i \in DOMAIN calls : calls[i] # "routeToExperts"
           /\ expertCalls = {}

\* The external calls of a request that runs all five stages.
stagePlan ==
    <<"getFinancialSnapshot", "classifyQuestion", "routeToExperts">>
        \o experts \o <<"streamFinalAnalysis">>

issued(name) == \E i \in DOMAIN calls : calls[i] = name

\* C16: the stages run in the order snapshot, classify, route, experts,
\* synthesize, each at most once, and no stage's call is issued before the
\* output of the stage before it is there: the classifier not before the
\* snapshot is returned, no expert before the selection is computed, the
\* synthesizer not before every expert call has returned.
StageOrder ==
    /\ Len(calls) <= Len(stagePlan)
    /\ \A i \in DOMAIN calls : calls[i] = stagePlan[i]
    /\ issued("classifyQuestion") => snapshot # NoSnapshot
    /\ issued("routeToExperts") => classification # NoClassification
    /\ expertCalls # {} =>
          /\ issued("routeToExperts")
          /\ experts = routeToExperts(classification, snapshot)
    /\ issued("streamFinalAnalysis") =>
          /\ Cardinality(expertCalls) = Len(experts)
          /\ \A i \in DOMAIN estate : estate[i] = "ok"

AllStagesIssued ==
    /\ pc = "synth_create"
    /\ Len(experts) >= 2
    /\ calls = stagePlan

deltaCount(evs) ==
    Cardinality({i \in DOMAIN evs : evs[i] = "response.output_text.delta"})

fragmentCount == Cardinality({i \in DOMAIN log : log[i].type = "delta"})

\* C17: the success path closes the channel only after the synthesizer's
\* stream has been drained and a completion event has been written: at the
\* closing no event of the stream is pending, every text delta of the stream
\* has been forwarded as a fragment, and the last event written is the
\* completion event.
DoneAfterDrain ==
    pc = "done" =>
        /\ streamed = Len(stream)
        /\ fragmentCount = deltaCount(stream)
        /\ log # <<>>
        /\ log[Len(log)] = doneEvent
        /\ endCount = 1

DrainedThenDone ==
    /\ pc = "done"
    /\ Len(stream) >= 2
    /\ deltaCount(stream) >= 1
    /\ fragmentCount = deltaCount(stream)

\* C18 (as claimed): the join of the experts waits for all of them: the
\* request is in no stage other than the experts stage while a call of one of
\* its experts is still in flight.
JoinWaitsForAll ==
    pc # "experts" => \A i \in DOMAIN estate : estate[i] # "inflight"

\* C19 (as claimed): when the client disconnects while the synthesis stage
\* is in flight, no answer fragment and no completion event is written after
\* the disconnect, and the request does not end as done.
SynthesisStopsOnClose ==
    closedPc \in {"synth_create", "streaming"} =>
        /\ pc # "done"
        /\ \A i \in DOMAIN log :
              i > closedAt => log[i].type \notin {"delta", "done"}

statusAt(msg) == {i \in DOMAIN log : log[i] = statusEvent(msg)}

\* C20: for every selected expert, its "started" status is written before
\* its own "finished" status, each at most once, and "finished" is written
\* only for an expert whose call returned.
ExpertEventOrder ==
    \A k \in DOMAIN experts :
        LET started == statusAt(startedMsg(experts[k]))
            finished == statusAt(finishedMsg(experts[k]))
        IN  /\ Cardinality(started) <= 1
            /\ Cardinality(finished) <= 1
            /\ finished # {} =>
                  /\ estate[k] = "ok"
                  /\ \E i \in started : \A j \in finished : i < j
            /\ estate[k] = "ok" => finished # {}

\* Two experts finish in the order opposite to the one they started in.
FinishedOutOfStartOrder ==
    \E k \in DOMAIN experts : \E l \in DOMAIN experts :
        /\ k < l
        /\ \E i \in statusAt(finishedMsg(experts[k])) :
              \E j \in statusAt(finishedMsg(experts[l])) : j < i
        /\ \E i \in statusAt(startedMsg(experts[k])) :
              \E j \in statusAt(startedMsg(experts[l])) : i < j

\* C27 (as claimed): when the synthesis stage starts, streamFinalAnalysis is
\* called with the snapshot, the question, the classification and the array
\* of expert results, none of them absent or undefined.
SynthesizerInputComplete ==
    pc = "synth_create" =>
        /\ {"snapshot", "question", "classification", "expertResponses"}
              \subseteq DOMAIN streamFinalAnalysisArgs
        /\ streamFinalAnalysisArgs.question # Undefined

\* C28: runExpertAnalysis issues no request for an expert without
\* output_schema, the router selects no such expert, and every expert result
\* handed to the synthesizer is a non-null {expertId, data} record.
SchemalessExpertsBypassed ==
    /\ \A e \in DOMAIN expertPanel :
          ~expertPanel[e].output_schema => expertStart(e) = "null"
    /\ \A i \in DOMAIN experts : expertPanel[experts[i]].output_schema
    /\ \A i \in DOMAIN estate : estate[i] # "null"
    /\ pc \in {"synth_create", "streaming", "done"} =>
          \A i \in DOMAIN expertResponses :
              /\ expertResponses[i] # NullResult
              /\ expertResponses[i].expertId = experts[i]
              /\ expertResponses[i].data = "ok"

ResultsHandedOver ==
    /\ pc = "streaming"
    /\ Len(expertResponses) = 3
    /\ \A i \in DOMAIN expertResponses : expertResponses[i].data = "ok"

FanOutBeforeFinish ==
    experts # <<>> =>
        /\ \A k \in DOMAIN experts :
              /\ Cardinality(statusAt(startedMsg(experts[k]))) = 1
              /\ \E i \in DOMAIN calls : calls[i] = experts[k]
              /\ \A l \in DOMAIN experts : \A i \in statusAt(startedMsg(experts[k])) :
                    /\ \A j \in statusAt(finishedMsg(experts[l])) : i < j
                    /\ k < l => \A j \in statusAt(startedMsg(experts[l])) : i < j
        /\ (pc = "experts" /\ \A l \in DOMAIN experts : statusAt(finishedMsg(experts[l])) = {})
              => \A k \in DOMAIN experts : estate[k] = "inflight"

AllStartedNoneFinished ==
    /\ pc = "experts"
    /\ Len(experts) = 4
    /\ \A k \in DOMAIN experts : estate[k] = "inflight"

\* C36: if every external call eventually returns or fails, every request
\* eventually reaches a terminal state (done, aborted or error) in which the
\* response has been ended and the heartbeat timer cleared, whether or not
\* and whenever the client disconnects.
RequestTerminates ==
    (pc # "idle") ~> (pc \in Terminal /\ endCount = 1 /\ heartbeat = "cleared")

TerminatedAfterDisconnect ==
    /\ pc = "aborted"
    /\ closedPc = "experts"
    /\ endCount = 1
    /\ heartbeat = "cleared"

----------------------------------------------------------------------------
(* Properties of routeToExperts (checked under SpecR) *)

has(seq, e) == \E i \in DOMAIN seq : seq[i] = e

indexOf(seq, e) == CHOOSE i \in DOMAIN seq : seq[i] = e

inScenario ==
    /\ rstate = "routed"
    /\ rclass.question_type = "recommendation"
    /\ rsnap.totals.totalLiabilities = 5000

\* C14 (as claimed): for question_type "recommendation" and totalLiabilities
\* 5000 the selection holds the baseline, debt-strategy and
\* behavioral-economics experts, baseline before debt-strategy before
\* behavioral-economics.
ScenarioDebtBeforeEconomist ==
    inScenario =>
        /\ has(rout, "financial_analyst")
        /\ has(rout, "debt_strategist")
        /\ has(rout, "behavioral_economist")
        /\ indexOf(rout, "financial_analyst") < indexOf(rout, "debt_strategist")
        /\ indexOf(rout, "debt_strategist") < indexOf(rout, "behavioral_economist")

\* C14 (amended): for question_type "recommendation" and totalLiabilities
\* 5000 the selection holds the three experts, baseline before
\* behavioral-economics before debt-strategy.
ScenarioEconomistBeforeDebt ==
    inScenario =>
        /\ has(rout, "financial_analyst")
        /\ has(rout, "debt_strategist")
        /\ has(rout, "behavioral_economist")
        /\ indexOf(rout, "financial_analyst") < indexOf(rout, "behavioral_economist")
        /\ indexOf(rout, "behavioral_economist") < indexOf(rout, "debt_strategist")

ScenarioRouted ==
    /\ inScenario
    /\ rclass.emotional_state = "anxious"
    /\ Len(rout) = 4

\* C21 (as claimed): the selection holds behavioral_therapist exactly when
\* emotional_state is anxious, defensive or overwhelmed.
DistressRule ==
    rstate = "routed" =>
        (has(rout, "behavioral_therapist")
            <=> rclass.emotional_state \in {"anxious", "defensive", "overwhelmed"})

\* C22: whenever routeToExperts returns, financial_analyst is the first
\* element of the selection, and debt_strategist is selected if and only if
\* snapshot.totals.totalLiabilities > 0.
BaselineAndDebtRule ==
    rstate = "routed" =>
        /\ rout # <<>>
        /\ rout[1] = "financial_analyst"
        /\ has(rout, "debt_strategist") <=> rsnap.totals.totalLiabilities > 0

DebtSelectedAfterBaseline ==
    /\ rstate = "routed"
    /\ rsnap.totals.totalLiabilities = 1
    /\ rclass.emotional_state = "defensive"
    /\ rout = <<"financial_analyst", "behavioral_therapist", "debt_strategist">>

\* C23: every selection returned by routeToExperts is non-empty, holds no
\* identifier twice and holds only identifiers of expertPanel, so that
\* runExpertAnalysis does not throw 'Unknown expert' for a selected expert.
ExpertSelectionInv ==
    rstate = "routed" =>
        /\ Len(rout) >= 1
        /\ \A i \in DOMAIN rout : \A j \in DOMAIN rout : rout[i] = rout[j] => i = j
        /\ \A i \in DOMAIN rout :
              /\ rout[i] \in DOMAIN expertPanel
              /\ expertStart(rout[i]) # "unknown"

FullSelection ==
    /\ rstate = "routed"
    /\ rclass.question_type = "future_planning"
    /\ rclass.emotional_state = "anxious"
    /\ rsnap.totals.totalLiabilities = 5000
    /\ Len(rout) = 4
    /\ has(rout, "goal_architect")

questionTypeSpecialists == {"behavioral_economist", "tax_optimizer", "goal_architect"}

\* C35: for every classification whose question_type is a string, at most
\* one of behavioral_economist, tax_optimizer and goal_architect is selected,
\* and the selection has at most 4 experts: the baseline, at most one
\* question-type specialist, behavioral_therapist and debt_strategist.
BoundedFanOut ==
    rstate = "routed" =>
        /\ Cardinality({i \in DOMAIN rout : rout[i] \in questionTypeSpecialists}) <= 1
        /\ Len(rout) <= 4
        /\ \A i \in DOMAIN rout :
              rout[i] \in questionTypeSpecialists
                  \cup {"financial_analyst", "behavioral_therapist", "debt_strategist"}

FourExpertsWithTax ==
    /\ rstate = "routed"
    /\ rclass.question_type = "estate_tax"
    /\ Len(rout) = 4
    /\ has(rout, "tax_optimizer")

----------------------------------------------------------------------------
(* Properties of getFinancialSnapshot (checked under SpecS) *)

\* The sum of the numbers f[i], i in S.
RECURSIVE SumOver(_, _)
SumOver(f, S) ==
    IF S = {} THEN 0
    ELSE LET i == CHOOSE j \in S : TRUE IN f[i] + SumOver(f, S \ {i})

\* C15: in every snapshot totalFixedCosts is the sum of the itemized
\* fixed-cost amounts, monthlyCashflowApprox is totalMonthlyIncome -
\* totalFixedCosts - totalSpending, netWorthApprox is totalAssets -
\* totalLiabilities, and every total is the sum over the itemized list of the
\* same snapshot.
SnapshotTotals ==
    sstate = "fetched" =>
        LET t == ssnap.totals IN
        /\ t.totalFixedCosts =
              SumOver([i \in DOMAIN ssnap.fixedCosts |-> ssnap.fixedCosts[i].amount],
                      DOMAIN ssnap.fixedCosts)
        /\ t.totalMonthlyIncome =
              SumOver([i \in DOMAIN ssnap.incomes |-> ssnap.incomes[i].monthlyAmount],
                      DOMAIN ssnap.incomes)
        /\ t.totalAssets =
              SumOver([i \in DOMAIN ssnap.assets |-> ssnap.assets[i].value],
                      DOMAIN ssnap.assets)
        /\ t.totalLiabilities =
              SumOver([i \in DOMAIN ssnap.liabilities |-> ssnap.liabilities[i].value],
                      DOMAIN ssnap.liabilities)
        /\ t.totalSpending =
              SumOver([i \in DOMAIN ssnap.spending |-> ssnap.spending[i].value],
                      DOMAIN ssnap.spending)
        /\ t.monthlyCashflowApprox =
              t.totalMonthlyIncome - t.totalFixedCosts - t.totalSpending
        /\ t.netWorthApprox = t.totalAssets - t.totalLiabilities

SnapshotWithAllTotals ==
    /\ sstate = "fetched"
    /\ Len(ssnap.fixedCosts) = 2
    /\ ssnap.totals.totalFixedCosts = 36
    /\ ssnap.totals.totalSpending = 12
    /\ ssnap.totals.monthlyCashflowApprox = -48

\* C29 (as claimed): every itemized amount that is NULL or negative in the
\* data store is zero in the snapshot, so no itemized amount and no summed
\* total is negative.
SnapshotNonNegative ==
    sstate = "fetched" =>
        /\ \A i \in DOMAIN ssnap.fixedCosts : ssnap.fixedCosts[i].amount >= 0
        /\ \A i \in DOMAIN ssnap.incomes : ssnap.incomes[i].monthlyAmount >= 0
        /\ \A i \in DOMAIN ssnap.assets : ssnap.assets[i].value >= 0
        /\ \A i \in DOMAIN ssnap.liabilities : ssnap.liabilities[i].value >= 0
        /\ \A i \in DOMAIN ssnap.spending : ssnap.spending[i].value >= 0
        /\ ssnap.totals.totalFixedCosts >= 0
        /\ ssnap.totals.totalMonthlyIncome >= 0
        /\ ssnap.totals.totalAssets >= 0
        /\ ssnap.totals.totalLiabilities >= 0
        /\ ssnap.totals.totalSpending >= 0

----------------------------------------------------------------------------
(* Properties of selectAgents (checked under SpecA) *)

\* The positions of acands that hold the first occurrence of their element.
firstSeen == {i \in DOMAIN acands : \A j \in 1..(i - 1) : acands[j] # acands[i]}

\* C24: the list selectAgents returns has no duplicates, at most 4 elements,
\* and is the first 4 (or all, if fewer) of the candidates in first-seen order
\* without their repetitions, so the candidates added last are the ones the
\* cap drops.
SelectionCapped ==
    astate = "selected" =>
        /\ \A i \in DOMAIN aout : \A j \in DOMAIN aout : aout[i] = aout[j] => i = j
        /\ Len(aout) <= 4
        /\ Len(aout) = IF Cardinality(firstSeen) < 4 THEN Cardinality(firstSeen) ELSE 4
        /\ \A k \in DOMAIN aout :
              \E i \in firstSeen :
                  /\ aout[k] = acands[i]
                  /\ Cardinality({j \in firstSeen : j < i}) = k - 1

CapDropsLast ==
    /\ astate = "selected"
    /\ Len(acands) = 5
    /\ aout = SubSeq(acands, 1, 4)
    /\ acands[5] = "investment_pm"

\* C25 (as claimed): for every router output accepted by assertRouterShape
\* and every combination of hints, selectAgents returns at least 2 and at
\* most 4 agent names.
TwoToFourAgents ==
    astate = "selected" => (Len(aout) >= 2 /\ Len(aout) <= 4)

----------------------------------------------------------------------------
(* Properties of runExpert (checked under SpecX) *)

completionReturned == xstate \in {"returned", "threw"} /\ xresult.raised # "completion failed"

\* C31 (as claimed): runExpert never raises on the text of a completion: when
\* safeJsonParse extracts no JSON object from it, the fallback artifact is
\* returned (the requested agent, empty claims, assumptions, numbers and
\* questions, one risk note, confidence 0.0); otherwise the artifact returned
\* has a non-empty agent, the model's or else the requested one.
ExpertOutputDegrades ==
    completionReturned =>
        /\ xstate = "returned"
        /\ IF safeJsonParse(xtext).json # "object"
             THEN /\ xresult.agent = xagent
                  /\ xresult.claims = <<>>
                  /\ xresult.assumptions = <<>>
                  /\ xresult.numbers = <<>>
                  /\ xresult.questions_to_ask_user = <<>>
                  /\ Len(xresult.risks) = 1
                  /\ xresult.confidence = <<"0.0">>
             ELSE /\ xresult.agent # ""
                  /\ xresult.agent \in {"m", xagent}

----------------------------------------------------------------------------
(* Properties of streamEditorToSSE (checked under SpecE) *)

edCount(event) == Cardinality({i \in DOMAIN edlog : edlog[i].event = event})

\* C32 (as claimed): when "close" fires while the editor stream is open, the
\* stream is aborted and neither "done" nor "error" is written afterwards;
\* when the function returns with the client connected, it has written
\* exactly one "done" or "error" event, as its last event, and has ended the
\* response once.
EditorStreamOutcome ==
    /\ edclosedPc \in {"creating", "streaming"} =>
          /\ edabort
          /\ \A i \in DOMAIN edlog :
                i > edclosedAt => edlog[i].event \notin {"done", "error"}
    /\ (edpc = "returned" /\ edclosedPc \notin {"creating", "streaming"}) =>
          /\ edCount("done") + edCount("error") = 1
          /\ edlog[Len(edlog)].event \in {"done", "error"}
          /\ edend = 1

----------------------------------------------------------------------------
(* Properties of concurrent requests of `create` (checked under SpecI) *)

\* C38: with several requests in flight, the aborted flag of a request is set
\* only by the disconnect of its own client, its heartbeat is cleared and
\* its response is written and ended only by its own code, and only when it
\* exits itself.
RequestIsolation ==
    \A r \in Requests :
        /\ iaborted[r] => iclosed[r]
        /\ iwriters[r] \subseteq {r}
        /\ iendedBy[r] \subseteq {r}
        /\ iclearedBy[r] \subseteq {r}
        /\ iheartbeat[r] = "cleared" <=> ipc[r] \in Terminal
        /\ iendedBy[r] # {} <=> ipc[r] \in Terminal

OneAbortedOtherCompletes ==
    /\ ipc[1] = "aborted"
    /\ ipc[2] = "done"
    /\ ~iaborted[2]
    /\ iclosed[1]

----------------------------------------------------------------------------
(* Properties of `question` (checked under SpecQ) *)

isBlankOrMissing(v) == v = Undefined \/ \A i \in DOMAIN v : v[i] = Blank

WritesWaitForDrain ==
    [][Len(qlog') > Len(qlog) => (qbuf = "ok" \/ qwait = "drain")]_vars

\* C30 (as claimed): once the client-disconnected flag is set, the handler
\* writes nothing more to the response: no status or agent event, no answer
\* chunk, no completion event, no [DONE] sentinel and no error event.
NoWriteAfterDisconnect ==
    qclosedAt >= 0 => Len(qlog) = qclosedAt

\* C37 (as claimed): if every external call eventually returns or fails,
\* every request eventually ends its response, also when the client
\* disconnects while sendSSESafe waits for "drain".
QuestionTerminates ==
    (qstate # "idle") ~> (qend >= 1)

\* The in-order concatenation of the contents of the answer_chunk events of lg.
RECURSIVE chunkText(_)
chunkText(lg) ==
    IF lg = <<>> THEN <<>>
    ELSE (IF Head(lg).type = "answer_chunk" THEN Head(lg).content ELSE <<>>)
         \o chunkText(Tail(lg))

\* C39: the answer of the completion event is the trimmed concatenation, in
\* order, of the contents of the answer_chunk events written; the chunks are
\* exactly the non-empty deltas received (their concatenation is fullText and
\* none is empty), and every chunk precedes the completion event.
AnswerRoundTrip ==
    /\ chunkText(qlog) = qfull
    /\ \A j \in 1..Len(qlog) :
           qlog[j].type = "answer_chunk" => qlog[j].content # <<>>
    /\ \A i \in 1..Len(qlog) :
           qlog[i].type = "complete" =>
               /\ qlog[i].content = trim(chunkText(qlog))
               /\ \A j \in 1..Len(qlog) : qlog[j].type = "answer_chunk" => j < i

CompletedWithPaddedAnswer ==
    /\ \E i \in 1..Len(qlog) :
           qlog[i].type = "complete" /\ qlog[i].content = <<"q">>
    /\ \E j \in 1..Len(qlog) :
           qlog[j].type = "answer_chunk" /\ qlog[j].content = <<Blank>>

====
